---- MODULE Spec2Model ----
(***************************************************************************)
(* REInventory: the inventory mutation engine of the campaign view.        *)
(*                                                                         *)
(* The model follows InventoryGrid (src/unnamed/part_001), the campaign    *)
(* store (src/src/stores/useCampaignStore.js), the currency ledger         *)
(* (src/src/utils/currencyUtils.js) and the wallet editor                  *)
(* (src/unnamed/part_002).  The remote document store is an external       *)
(* collaborator: a write request is queued, later committed atomically or  *)
(* rejected, and every committed change is notified to the subscribed      *)
(* listeners, which then read the current value of what they listen to.    *)
(*                                                                         *)
(* JavaScript objects are functions on their field names, so that an       *)
(* absent field (an item without x and y) is a field outside the DOMAIN.   *)
(***************************************************************************)
EXTENDS Integers, Sequences, FiniteSets, TLC

VARIABLES
    db,            \* the remote store: inventory documents and their containers
    inventories,   \* useCampaignStore state: the client's local view
    pending,       \* write requests issued and not yet acknowledged (FIFO)
    invDirty,      \* a change of the inventories collection awaits notification
    contDirty,     \* per owner: a change of its containers awaits notification
    isDM,          \* the viewer is the campaign's DM (campaign.dmId = user.uid)
    modal,         \* splittingItem or itemToEdit while its dialog is open
    lastToast,     \* the messages of the last step
    nextId,        \* source of crypto.randomUUID()
    opsLeft,       \* number of user operations still to come
    lastOp,        \* history: the last step taken
    transferred,   \* history: the item last moved between two owners
    campaignId,    \* the campaign of the mounted view; "" when the view is left
    campaignData,  \* useCampaignStore state: the campaign document, or null
    campaignListener,    \* useCampaignStore state: unsubscribe handle, or null
    inventoriesListener, \* useCampaignStore state: unsubscribe handle, or null
    containerListeners,  \* useCampaignStore state: unsubscribe handle per owner
    subs,          \* the subscriptions the remote store still serves
    visitsLeft,    \* number of times the view can still be left or switched
    mounts,        \* history: how often the store was cleared
    tradeDb,       \* the remote store: the trades collection
    tradeToasts,   \* the invitations on screen, each with its two buttons
    tradeKnown,    \* per user: the trades its listener has already reported
    tradeLog,      \* history: the last trade step and the trades declined
    ledger,        \* a wallet, a cost and what the currency ledger made of them
    placement      \* a grid, its items, an item and the slot found for it

storeVars == <<campaignId, campaignData, campaignListener, inventoriesListener,
               containerListeners, subs, visitsLeft, mounts>>

tradeVars == <<tradeDb, tradeToasts, tradeKnown, tradeLog>>

vars == <<db, inventories, pending, invDirty, contDirty, isDM, modal, lastToast,
          nextId, opsLeft, lastOp, transferred, storeVars, tradeVars, ledger, placement>>

----------------------------------------------------------------------------
(* Bounds of the model *)

MaxOps == 2

\* how often the view is left or switched to another campaign
MaxVisits == 2

\* how many trades are proposed
MaxTrades == 2

\* how many invitations are shown in all
MaxToasts == 3

\* the wallets and costs given to the currency ledger: gold pieces, silver
\* and copper pieces (more than nine, so that change is made), copper of a cost
MaxGp == 1

MaxCoin == 11

MaxCost == 25

\* the cost texts given to the parser: the largest amount written in one,
\* and the most blanks between the amount and the denomination
MaxAmount == 20

MaxSpaces == 2

\* the grids given to the placement engine: the longest side of a grid and
\* of an item, and the most items already lying in the grid
MaxSide == 2

MaxPlaced == 2

----------------------------------------------------------------------------
(* JavaScript object and array helpers *)

Has(r, f) == f \in DOMAIN r

\* { ...a, ...b }
Merge(a, b) == [f \in (DOMAIN a) \cup (DOMAIN b) |-> IF f \in DOMAIN b THEN b[f] ELSE a[f]]

\* const { x, y, ...rest } = a
Omit(a, fs) == [f \in (DOMAIN a) \ fs |-> a[f]]

\* a.f || d for a list-valued or record-valued field
GetOr(r, f, d) == IF Has(r, f) THEN r[f] ELSE d

\* Array.prototype.findIndex on the id, 1-based; 0 stands for -1
FindIndex(s, id) ==
    IF \E i \in 1..Len(s) : s[i].id = id
    THEN CHOOSE i \in 1..Len(s) : s[i].id = id /\ \A j \in 1..(i - 1) : s[j].id # id
    ELSE 0

\* Array.prototype.splice(i, 1)
RemoveAt(s, i) == SubSeq(s, 1, i - 1) \o SubSeq(s, i + 1, Len(s))

\* Array.prototype.filter(i => i.id !== id)
WithoutId(s, id) == SelectSeq(s, LAMBDA i : i.id # id)

\* Array.prototype.map(i => i.id === id ? v : i)
ReplaceId(s, id, v) == [k \in 1..Len(s) |-> IF s[k].id = id THEN v ELSE s[k]]

HasId(s, id) == \E k \in 1..Len(s) : s[k].id = id

Range(s) == {s[k] : k \in 1..Len(s)}

----------------------------------------------------------------------------
(* Grid Placement Engine (utils/gridUtils, specified in section 4.1) *)

Null == [null |-> TRUE]

outOfBounds(x, y, item, gridWidth, gridHeight) ==
    x < 0 \/ y < 0 \/ x + item.w > gridWidth \/ y + item.h > gridHeight

onOtherItem(x, y, item, other) ==
    /\ x < other.x + other.w
    /\ x + item.w > other.x
    /\ y < other.y + other.h
    /\ y + item.h > other.y

SlotFree(items, item, x, y, gridWidth, gridHeight) ==
    /\ ~outOfBounds(x, y, item, gridWidth, gridHeight)
    /\ \A k \in 1..Len(items) : ~onOtherItem(x, y, item, items[k])

\* a scan column by column instead: x from 0, y from 0 within each column
findFirstSlotByColumn(items, item, gridWidth, gridHeight) ==
    LET cells == {c \in (0..(gridWidth - 1)) \X (0..(gridHeight - 1)) :
                    SlotFree(items, item, c[1], c[2], gridWidth, gridHeight)}
    IN  IF cells = {} THEN Null
        ELSE LET first == CHOOSE c \in cells :
                            \A d \in cells : c[1] < d[1] \/ (c[1] = d[1] /\ c[2] <= d[2])
             IN  [x |-> first[1], y |-> first[2]]

\* row-major scan: y from 0, x from 0 within each row
findFirstAvailableSlot(items, item, gridWidth, gridHeight) ==
    LET cells == {c \in (0..(gridWidth - 1)) \X (0..(gridHeight - 1)) :
                    SlotFree(items, item, c[1], c[2], gridWidth, gridHeight)}
    IN  IF cells = {} THEN Null
        ELSE LET first == CHOOSE c \in cells :
                            \A d \in cells : c[2] < d[2] \/ (c[2] = d[2] /\ c[1] <= d[1])
             IN  [x |-> first[1], y |-> first[2]]

----------------------------------------------------------------------------
(* Currency Ledger (utils/currencyUtils.js).  A cost string is the         *)
(* sequence of its characters; the empty sequence also stands for an       *)
(* absent cost (both are falsy).                                           *)

RATES == [gp |-> 100, sp |-> 10, cp |-> 1]

Digits == <<"0", "1", "2", "3", "4", "5", "6", "7", "8", "9">>

IsDigit(c) == \E d \in 1..10 : Digits[d] = c

DigitValue(c) == (CHOOSE d \in 1..10 : Digits[d] = c) - 1

IsSpace(c) == c = " "

\* String.prototype.toLowerCase on the letters of the denominations
LowerChar(c) ==
    CASE c = "G" -> "g" [] c = "S" -> "s" [] c = "C" -> "c" [] c = "P" -> "p" [] OTHER -> c

\* toLowerCase leaving every letter as it is
keepCase(s) == s

toLowerCase(s) == [k \in 1..Len(s) |-> LowerChar(s[k])]

\* String.prototype.trim
trim(s) ==
    LET solid == {k \in 1..Len(s) : ~IsSpace(s[k])}
    IN  IF solid = {} THEN <<>>
        ELSE LET lo == CHOOSE k \in solid : \A j \in solid : k <= j
                 hi == CHOOSE k \in solid : \A j \in solid : k >= j
             IN  SubSeq(s, lo, hi)

\* end (exclusive) of the maximal run of characters satisfying P from i
RECURSIVE RunEnd(_, _, _)
RunEnd(s, i, digit) ==
    IF i > Len(s) THEN i
    ELSE IF (digit /\ IsDigit(s[i])) \/ (~digit /\ IsSpace(s[i])) THEN RunEnd(s, i + 1, digit)
    ELSE i

\* parseInt(digits, 10)
RECURSIVE parseInt(_)
parseInt(ds) ==
    IF ds = <<>> THEN 0
    ELSE 10 * parseInt(SubSeq(ds, 1, Len(ds) - 1)) + DigitValue(ds[Len(ds)])

UnitAt(s, k) ==
    IF k + 1 <= Len(s) /\ s[k] \in {"g", "s", "c"} /\ s[k + 1] = "p"
    THEN <<s[k], s[k + 1]>> ELSE <<>>

\* the regular expression /(\d+)\s*(gp|sp|cp)/ tried at position i
MatchAt(s, i) ==
    /\ i <= Len(s)
    /\ IsDigit(s[i])
    /\ UnitAt(s, RunEnd(s, RunEnd(s, i, TRUE), FALSE)) # <<>>

UnitRate(u) ==
    CASE u = <<"g", "p">> -> RATES.gp
      [] u = <<"s", "p">> -> RATES.sp
      [] u = <<"c", "p">> -> RATES.cp
      [] OTHER -> 0

parseCostToCp(costStr) ==
    IF costStr = <<>> THEN 0
    ELSE LET normalized == trim(toLowerCase(costStr))
             starts == {i \in 1..Len(normalized) : MatchAt(normalized, i)}
         IN  IF starts = {} THEN 0
             ELSE LET i == CHOOSE k \in starts : \A j \in starts : k <= j
                      e == RunEnd(normalized, i, TRUE)
                      value == parseInt(SubSeq(normalized, i, e - 1))
                      unit == UnitAt(normalized, RunEnd(normalized, e, FALSE))
                  IN  value * UnitRate(unit)

\* walletToCp adding the pieces up without their rates
walletToCpFlat(wallet) ==
    GetOr(wallet, "gp", 0) + GetOr(wallet, "sp", 0) + GetOr(wallet, "cp", 0)

\* (wallet.gp || 0) * 100 + (wallet.sp || 0) * 10 + (wallet.cp || 0)
walletToCp(wallet) ==
    GetOr(wallet, "gp", 0) * RATES.gp + GetOr(wallet, "sp", 0) * RATES.sp
        + GetOr(wallet, "cp", 0) * RATES.cp

\* deductCurrency refusing a wallet that holds exactly the cost
deductCurrencyStrict(wallet, costInCp) ==
    LET currentTotal == walletToCp(wallet)
        remainingTotal == currentTotal - costInCp
        newGp == remainingTotal \div RATES.gp
        afterGp == remainingTotal % RATES.gp
        newSp == afterGp \div RATES.sp
        newCp == afterGp % RATES.sp
    IN  IF currentTotal <= costInCp THEN Null
        ELSE [gp |-> newGp, sp |-> newSp, cp |-> newCp]

\* deductCurrency taking the silver from the whole remainder, the gold included
deductCurrencyDoubleCount(wallet, costInCp) ==
    LET currentTotal == walletToCp(wallet)
        remainingTotal == currentTotal - costInCp
        newGp == remainingTotal \div RATES.gp
        newSp == remainingTotal \div RATES.sp
        newCp == remainingTotal % RATES.sp
    IN  IF currentTotal < costInCp THEN Null
        ELSE [gp |-> newGp, sp |-> newSp, cp |-> newCp]

deductCurrency(wallet, costInCp) ==
    LET currentTotal == walletToCp(wallet)
        remainingTotal == currentTotal - costInCp
        newGp == remainingTotal \div RATES.gp
        afterGp == remainingTotal % RATES.gp
        newSp == afterGp \div RATES.sp
        newCp == afterGp % RATES.sp
    IN  IF currentTotal < costInCp THEN Null
        ELSE [gp |-> newGp, sp |-> newSp, cp |-> newCp]

----------------------------------------------------------------------------
(* Documents, the local view and write requests *)

LootPileId == "public-loot"

ZeroWallet == [gp |-> 0, sp |-> 0, cp |-> 0]

\* container documents come in the order of their ids
ContainerOrder == <<"backpack", "pouch">>

\* Object.values(inv.containers), each container carrying its id
ContainerIds(inv, p) == SelectSeq(ContainerOrder, LAMBDA c : c \in DOMAIN inv[p].containers)

\* an update of one document: c = "" is the inventory document of p,
\* otherwise the container document c of p; fields are merged
Update(p, c, fields) == [p |-> p, c |-> c, fields |-> fields]

\* a field whose value is undefined is not part of an update
Defined(r, fs) == [f \in {g \in fs : Has(r, g)} |-> r[f]]

\* setDoc(ref, fields, { merge: true }) on an inventory document: the fields
\* are merged into the document, which is created when it does not exist
SetMerge(p, fields) == [p |-> p, c |-> "", fields |-> fields, merge |-> TRUE]

WriteTargetExists(d, w) ==
    \/ Has(w, "merge")
    \/ /\ w.p \in DOMAIN d
       /\ w.c # "" => w.c \in DOMAIN d[w.p].containers

ApplyUpdate(d, w) ==
    IF w.p \notin DOMAIN d
    THEN [q \in (DOMAIN d) \cup {w.p} |->
            IF q = w.p THEN [doc |-> w.fields, containers |-> [c \in {} |-> 0]] ELSE d[q]]
    ELSE IF w.c = ""
    THEN [d EXCEPT ![w.p] = [doc |-> Merge(d[w.p].doc, w.fields),
                             containers |-> d[w.p].containers]]
    ELSE [d EXCEPT ![w.p] = [doc |-> d[w.p].doc,
                             containers |-> [d[w.p].containers EXCEPT
                                               ![w.c] = Merge(@, w.fields)]]]

RECURSIVE ApplyBatch(_, _)
ApplyBatch(d, ws) ==
    IF ws = <<>> THEN d ELSE ApplyBatch(ApplyUpdate(d, Head(ws)), Tail(ws))

\* a write request in flight: the updates of one atomic commit, and what the
\* continuation of the handler does when it is acknowledged or rejected
Request(op, writes, rollback, orig, okToast, failToast) ==
    [op |-> op, writes |-> writes, rollback |-> rollback, orig |-> orig,
     okToast |-> okToast, failToast |-> failToast]

\* newInventories[p].f = v
SetInvField(inv, p, f, v) == [inv EXCEPT ![p] = Merge(@, (f :> v))]

\* newInventories[p].containers[c].f = v
SetContField(inv, p, c, f, v) ==
    [inv EXCEPT ![p] =
        Merge(@, [containers |-> [inv[p].containers EXCEPT ![c] = Merge(@, (f :> v))]])]

HasContainer(inv, p, c) == Has(inv[p], "containers") /\ c \in DOMAIN inv[p].containers

\* what a handler leaves behind: the local view, the requests it issued and
\* the messages it showed
Outcome(inv, reqs, toasts) == [inv |-> inv, reqs |-> reqs, toasts |-> toasts]

----------------------------------------------------------------------------
(* InventoryGrid.handleDragEnd (src/unnamed/part_001, 956-1183) *)

\* where a list of items lives inside one inventory
Loc(c, f) == [c |-> c, f |-> f]

ListExists(inv, p, loc) ==
    IF loc.c = "" THEN Has(inv[p], loc.f)
    ELSE HasContainer(inv, p, loc.c) /\ Has(inv[p].containers[loc.c], loc.f)

GetList(inv, p, loc) ==
    IF loc.c = "" THEN inv[p][loc.f] ELSE inv[p].containers[loc.c][loc.f]

SetList(inv, p, loc, v) ==
    IF loc.c = "" THEN SetInvField(inv, p, loc.f, v) ELSE SetContField(inv, p, loc.c, loc.f, v)

IsDMName(inv, p) == Has(inv[p], "characterName") /\ inv[p].characterName = "DM"

DefaultMaxStack == 20

\* Math.min giving its first argument back
MinFirst(a, b) == a

Min(a, b) == IF a <= b THEN a ELSE b

\* the test of line 983 never passing
StackEligibleNever(item, passiveItem) == FALSE

\* line 983
StackEligible(item, passiveItem) ==
    /\ Has(passiveItem, "id")
    /\ item.id # passiveItem.id
    /\ passiveItem.stackable
    /\ item.name = passiveItem.name
    /\ item.type = passiveItem.type

\* the updates of lines 1032-1038: the tray of the inventory document and
\* both lists of every container
StackWrites(inv, p) ==
    <<Update(p, "", Defined(inv[p], {"trayItems"}))>> \o
    [k \in 1..Len(ContainerIds(inv, p)) |->
        Update(p, ContainerIds(inv, p)[k],
               Defined(inv[p].containers[ContainerIds(inv, p)[k]], {"gridItems", "trayItems"}))]

\* lines 985-1048
DragStack(inv, item, startPlayerId, startContainerId, startSource, passiveItem, endPlayerId, endContainerId, endDestination) ==
    LET maxStack == IF Has(passiveItem, "maxStack") /\ passiveItem.maxStack # 0
                    THEN passiveItem.maxStack ELSE DefaultMaxStack
        roomInStack == maxStack - passiveItem.quantity
        amountToTransfer == Min(item.quantity, roomInStack)
        remainingQuantity == item.quantity - amountToTransfer
        targetLoc == IF endDestination = "grid" THEN Loc(endContainerId, "gridItems")
                     ELSE IF IsDMName(inv, endPlayerId) THEN Loc(endContainerId, "trayItems")
                     ELSE Loc("", "trayItems")
        targetFound == /\ ListExists(inv, endPlayerId, targetLoc)
                       /\ HasId(GetList(inv, endPlayerId, targetLoc), passiveItem.id)
        targetList == GetList(inv, endPlayerId, targetLoc)
        ti == FindIndex(targetList, passiveItem.id)
        inv1 == SetList(inv, endPlayerId, targetLoc,
                        [targetList EXCEPT ![ti] =
                            Merge(@, [quantity |-> @.quantity + amountToTransfer])])
        sourceLoc == IF startSource = "grid" THEN Loc(startContainerId, "gridItems")
                     ELSE IF IsDMName(inv1, startPlayerId) THEN Loc(startContainerId, "trayItems")
                     ELSE Loc("", "trayItems")
        sourceExists == ListExists(inv1, startPlayerId, sourceLoc)
        sourceList == GetList(inv1, startPlayerId, sourceLoc)
        si == FindIndex(sourceList, item.id)
        inv2 == IF remainingQuantity <= 0
                THEN SetList(inv1, startPlayerId, sourceLoc, WithoutId(sourceList, item.id))
                ELSE SetList(inv1, startPlayerId, sourceLoc,
                             [sourceList EXCEPT ![si] =
                                 Merge(@, [quantity |-> remainingQuantity])])
        writes == StackWrites(inv2, startPlayerId) \o
                  (IF startPlayerId # endPlayerId THEN StackWrites(inv2, endPlayerId) ELSE <<>>)
    IN  IF amountToTransfer <= 0
        THEN Outcome(inv, <<>>, <<"error: stack full">>)
        ELSE IF ~targetFound \/ ~sourceExists \/ (remainingQuantity > 0 /\ si = 0)
        THEN Outcome(inv, <<>>, <<>>)     \* a TypeError ends the handler
        ELSE Outcome(inv2,
                     <<Request("stack", writes, TRUE, inv,
                               "success: stacked", "error: stack failed")>>,
                     <<>>)

\* the updates of lines 1149-1159 and 1163-1173 for one inventory
MoveWrites(inv, p) ==
    <<Update(p, "", [trayItems |-> GetOr(inv[p], "trayItems", <<>>),
                     equippedItems |-> GetOr(inv[p], "equippedItems", <<>>)])>> \o
    [k \in 1..Len(ContainerIds(inv, p)) |->
        LET c == ContainerIds(inv, p)[k] IN
        Update(p, c, [gridItems |-> GetOr(inv[p].containers[c], "gridItems", <<>>),
                      trayItems |-> GetOr(inv[p].containers[c], "trayItems", <<>>)])]

\* lines 1052-1073: the requests and messages of the merchant logic;
\* afford is FALSE when the drag stops there
Purchase(inv, item, startPlayerId, endPlayerId) ==
    LET costInCp == parseCostToCp(GetOr(item, "cost", <<>>))
        playerWallet == IF endPlayerId \in DOMAIN inv /\ Has(inv[endPlayerId], "currency")
                        THEN inv[endPlayerId].currency ELSE ZeroWallet
        newWallet == deductCurrency(playerWallet, costInCp)
        buying == /\ startPlayerId \in DOMAIN inv
                  /\ GetOr(inv[startPlayerId], "isMerchant", FALSE)
                  /\ startPlayerId # endPlayerId
                  /\ costInCp > 0
    IN  IF ~buying THEN [afford |-> TRUE, reqs |-> <<>>, toasts |-> <<>>]
        ELSE IF newWallet = Null
        THEN [afford |-> FALSE, reqs |-> <<>>, toasts |-> <<"error: cannot afford">>]
        ELSE [afford |-> TRUE,
              \* updateCurrency (useCampaignStore.js 100-104), not awaited
              reqs |-> <<Merge(Request("pay",
                                       <<Update(endPlayerId, "", [currency |-> newWallet])>>,
                                       FALSE, <<>>, "", ""),
                               [item |-> item.id, to |-> endPlayerId])>>,
              toasts |-> <<"success: bought">>]

\* lines 1088-1102: the list the dragged item is taken from
MoveSourceLoc(inv, startPlayerId, startContainerId, startSource) ==
    IF startSource = "grid" THEN Loc(startContainerId, "gridItems")
    ELSE IF startSource = "equipped" THEN Loc("", "equippedItems")
    ELSE IF IsDMName(inv, startPlayerId) THEN Loc(startContainerId, "trayItems")
    ELSE Loc("", "trayItems")

\* lines 1075-1182, after the merchant logic; bought carries its requests and messages
DragMove(inv, viewerIsDM, gridRefs, item, startPlayerId, startContainerId, startSource, endPlayerId, endContainerId, endDestination, dropX, dropY, bought) ==
    LET stop == Outcome(inv, bought.reqs, bought.toasts)
        sourceLoc == MoveSourceLoc(inv, startPlayerId, startContainerId, startSource)
        sourceList == GetList(inv, startPlayerId, sourceLoc)
        itemIndex == FindIndex(sourceList, item.id)
        movedItem == sourceList[itemIndex]
        inv1 == SetList(inv, startPlayerId, sourceLoc, RemoveAt(sourceList, itemIndex))
        \* destination: a grid
        endContainer == inv1[endPlayerId].containers[endContainerId]
        dropPos == [x |-> dropX, y |-> dropY]
        finalPos ==
            IF \/ outOfBounds(dropX, dropY, movedItem, endContainer.gridWidth, endContainer.gridHeight)
               \/ \E k \in 1..Len(endContainer.gridItems) :
                     onOtherItem(dropX, dropY, movedItem, endContainer.gridItems[k])
            THEN findFirstAvailableSlot(endContainer.gridItems, movedItem,
                                        endContainer.gridWidth, endContainer.gridHeight)
            ELSE dropPos
        backLoc == IF IsDMName(inv1, startPlayerId) THEN Loc(startContainerId, "trayItems")
                   ELSE Loc("", "trayItems")
        toGrid ==
            IF finalPos # Null
            THEN [ok |-> TRUE, toasts |-> <<>>,
                  inv |-> SetContField(inv1, endPlayerId, endContainerId, "gridItems",
                                       Append(endContainer.gridItems, Merge(movedItem, finalPos)))]
            ELSE IF ListExists(inv1, startPlayerId, backLoc)
            THEN [ok |-> TRUE, toasts |-> <<"error: no space">>,
                  inv |-> SetList(inv1, startPlayerId, backLoc,
                                  Append(GetList(inv1, startPlayerId, backLoc), movedItem))]
            ELSE [ok |-> FALSE, toasts |-> <<"error: no space">>, inv |-> inv]
        \* destination: a tray or the equipped list
        trayItem == Omit(movedItem, {"x", "y"})
        toList ==
            IF endDestination = "equipped"
            THEN [ok |-> TRUE, toasts |-> <<>>,
                  inv |-> SetInvField(inv1, endPlayerId, "equippedItems",
                                      Append(GetOr(inv1[endPlayerId], "equippedItems", <<>>), trayItem))]
            ELSE IF IsDMName(inv1, endPlayerId)
            THEN IF ~HasContainer(inv1, endPlayerId, endContainerId)
                 THEN [ok |-> FALSE, toasts |-> <<>>, inv |-> inv]
                 ELSE [ok |-> TRUE, toasts |-> <<>>,
                       inv |-> SetContField(inv1, endPlayerId, endContainerId, "trayItems",
                                  Append(GetOr(inv1[endPlayerId].containers[endContainerId],
                                               "trayItems", <<>>), trayItem))]
            ELSE [ok |-> TRUE, toasts |-> <<>>,
                  inv |-> SetInvField(inv1, endPlayerId, "trayItems",
                                      Append(GetOr(inv1[endPlayerId], "trayItems", <<>>), trayItem))]
        placed == IF endDestination = "grid" THEN toGrid ELSE toList
        writes == MoveWrites(placed.inv, startPlayerId) \o
                  (IF startPlayerId # endPlayerId THEN MoveWrites(placed.inv, endPlayerId) ELSE <<>>)
    IN  IF startPlayerId \notin DOMAIN inv \/ endPlayerId \notin DOMAIN inv THEN stop
        ELSE IF endPlayerId = LootPileId /\ ~viewerIsDM
        THEN Outcome(inv, bought.reqs, bought.toasts \o <<"error: loot pile is DM only">>)
        ELSE IF ~ListExists(inv, startPlayerId, sourceLoc) THEN stop
        ELSE IF itemIndex = 0 THEN stop
        ELSE IF endDestination = "grid" /\
                (~HasContainer(inv1, endPlayerId, endContainerId) \/ endContainerId \notin gridRefs)
        THEN stop
        ELSE IF ~placed.ok THEN Outcome(inv, bought.reqs, bought.toasts \o placed.toasts)
        ELSE IF ~Has(placed.inv[startPlayerId], "containers")
                \/ (startPlayerId # endPlayerId /\ ~Has(placed.inv[endPlayerId], "containers"))
        \* Object.values(undefined) throws after the optimistic apply
        THEN Outcome(placed.inv, bought.reqs, bought.toasts \o placed.toasts)
        ELSE Outcome(placed.inv,
                     bought.reqs \o <<Request("move", writes, TRUE, inv, "", "error: move failed")>>,
                     bought.toasts \o placed.toasts)

\* handleDragEnd; over is the droppable under the pointer: a zone
\* (owner|container|destination) or an item with its owner, container and source
handleDragEndResult(inv, viewerIsDM, gridRefs, item, startPlayerId, startContainerId, startSource, over, dropX, dropY) ==
    LET passiveItem == over.item
        bought == Purchase(inv, item, startPlayerId, over.ownerId)
    IN  IF StackEligible(item, passiveItem)
        THEN DragStack(inv, item, startPlayerId, startContainerId, startSource, passiveItem,
                       over.ownerId, over.containerId, over.source)
        ELSE IF ~bought.afford THEN Outcome(inv, <<>>, bought.toasts)
        ELSE DragMove(inv, viewerIsDM, gridRefs, item, startPlayerId, startContainerId,
                      startSource, over.ownerId, over.containerId, over.source,
                      dropX, dropY, bought)

----------------------------------------------------------------------------
(* The context-menu handlers of InventoryGrid (src/unnamed/part_001) *)

\* handleEquipItem pushing the item as it is, with its x and y
handleEquipItemKeepingPosition(inv, item, playerId, source, containerId) ==
    LET loc == IF source = "grid" THEN Loc(containerId, "gridItems") ELSE Loc("", "trayItems")
        list == GetList(inv, playerId, loc)
        itemIndex == FindIndex(list, item.id)
        inv1 == SetList(inv, playerId, loc, RemoveAt(list, itemIndex))
        equippedItem == item
        inv2 == SetInvField(inv1, playerId, "equippedItems",
                            Append(GetOr(inv1[playerId], "equippedItems", <<>>), equippedItem))
        writes == <<IF source = "grid"
                    THEN Update(playerId, containerId,
                                [gridItems |-> inv2[playerId].containers[containerId].gridItems])
                    ELSE Update(playerId, "", [trayItems |-> inv2[playerId].trayItems]),
                    Update(playerId, "", [equippedItems |-> inv2[playerId].equippedItems])>>
    IN  IF playerId \notin DOMAIN inv THEN Outcome(inv, <<>>, <<>>)
        ELSE IF ~ListExists(inv, playerId, loc) \/ itemIndex = 0
        THEN Outcome(inv, <<>>, <<"error: item to equip not found">>)
        ELSE Outcome(inv2,
                     <<Request("equip", writes, TRUE, inv, "success: equipped", "error: equip failed")>>,
                     <<>>)

\* handleEquipItem, lines 517-574
handleEquipItemResult(inv, item, playerId, source, containerId) ==
    LET loc == IF source = "grid" THEN Loc(containerId, "gridItems") ELSE Loc("", "trayItems")
        list == GetList(inv, playerId, loc)
        itemIndex == FindIndex(list, item.id)
        inv1 == SetList(inv, playerId, loc, RemoveAt(list, itemIndex))
        equippedItem == Omit(item, {"x", "y"})
        inv2 == SetInvField(inv1, playerId, "equippedItems",
                            Append(GetOr(inv1[playerId], "equippedItems", <<>>), equippedItem))
        writes == <<IF source = "grid"
                    THEN Update(playerId, containerId,
                                [gridItems |-> inv2[playerId].containers[containerId].gridItems])
                    ELSE Update(playerId, "", [trayItems |-> inv2[playerId].trayItems]),
                    Update(playerId, "", [equippedItems |-> inv2[playerId].equippedItems])>>
    IN  IF playerId \notin DOMAIN inv THEN Outcome(inv, <<>>, <<>>)
        ELSE IF ~ListExists(inv, playerId, loc) \/ itemIndex = 0
        THEN Outcome(inv, <<>>, <<"error: item to equip not found">>)
        ELSE Outcome(inv2,
                     <<Request("equip", writes, TRUE, inv, "success: equipped", "error: equip failed")>>,
                     <<>>)

\* no container is tried: the item always goes to the floor
PlaceInNoContainer(inv, p, cs, itemToPlace) == [placed |-> FALSE, inv |-> inv]

\* lines 592-602: the first container, in owner order, with a free slot
RECURSIVE PlaceInFirstContainer(_, _, _, _)
PlaceInFirstContainer(inv, p, cs, itemToPlace) ==
    IF cs = <<>> THEN [placed |-> FALSE, inv |-> inv]
    ELSE LET c == Head(cs)
             container == inv[p].containers[c]
             gridItems == GetOr(container, "gridItems", <<>>)
             withGrid == SetContField(inv, p, c, "gridItems", gridItems)
             availableSlot == findFirstAvailableSlot(gridItems, itemToPlace,
                                                     container.gridWidth, container.gridHeight)
         IN  IF availableSlot # Null
             THEN [placed |-> TRUE,
                   inv |-> SetContField(inv, p, c, "gridItems",
                                        Append(gridItems, Merge(itemToPlace, availableSlot)))]
             ELSE PlaceInFirstContainer(withGrid, p, Tail(cs), itemToPlace)

\* handleUnequipItem, lines 576-634
handleUnequipItemResult(inv, item, playerId) ==
    LET equipped == inv[playerId].equippedItems
        itemIndex == FindIndex(equipped, item.id)
        inv1 == SetInvField(inv, playerId, "equippedItems", RemoveAt(equipped, itemIndex))
        itemToPlace == Omit(item, {"x", "y"})
        inGrid == IF Has(inv1[playerId], "containers")
                  THEN PlaceInFirstContainer(inv1, playerId, ContainerIds(inv1, playerId), itemToPlace)
                  ELSE [placed |-> FALSE, inv |-> inv1]
        inv2 == IF inGrid.placed THEN inGrid.inv
                ELSE SetInvField(inGrid.inv, playerId, "trayItems",
                                 Append(GetOr(inGrid.inv[playerId], "trayItems", <<>>), itemToPlace))
        writes == <<Update(playerId, "", Defined(inv2[playerId], {"equippedItems", "trayItems"}))>> \o
                  (IF Has(inv2[playerId], "containers")
                   THEN [k \in 1..Len(ContainerIds(inv2, playerId)) |->
                            Update(playerId, ContainerIds(inv2, playerId)[k],
                                   [gridItems |-> inv2[playerId].containers[
                                                     ContainerIds(inv2, playerId)[k]].gridItems])]
                   ELSE <<>>)
    IN  IF ~Has(inv[playerId], "equippedItems") \/ itemIndex = 0
        THEN Outcome(inv, <<>>, <<"error: item to unequip not found">>)
        ELSE Outcome(inv2,
                     <<Request("unequip", writes, TRUE, inv,
                               "success: unequipped", "error: unequip failed")>>,
                     <<>>)

\* the list handleRevealMagicProperties and handleDeleteItem rewrite (lines
\* 659-679 and 693-713): the item replaced by updatedItem, or filtered out
\* when the operation is the deletion; no write when the handler returns or
\* throws before writing
RewriteList(inv, playerId, source, containerId, item, updatedItem, op, okToast) ==
    LET newList(list) == IF op = "delete" THEN WithoutId(list, item.id)
                         ELSE ReplaceId(list, item.id, updatedItem)
        inContainer == containerId # "" /\ containerId # "tray"
        field == IF source = "grid" THEN "gridItems" ELSE "trayItems"
    IN  IF inContainer
        THEN IF ~HasContainer(inv, playerId, containerId)
                \/ ~Has(inv[playerId].containers[containerId], field)
             THEN Outcome(inv, <<>>, <<>>)
             ELSE Outcome(inv,
                          <<Request(op,
                                    <<Update(playerId, containerId,
                                             (field :> newList(inv[playerId].containers[containerId][field])))>>,
                                    FALSE, <<>>, okToast, "")>>,
                          <<>>)
        ELSE IF source = "tray"
        THEN IF playerId \notin DOMAIN inv \/ ~Has(inv[playerId], "trayItems")
             THEN Outcome(inv, <<>>, <<>>)
             ELSE Outcome(inv,
                          <<Request(op,
                                    <<Update(playerId, "",
                                             [trayItems |-> newList(inv[playerId].trayItems)])>>,
                                    FALSE, <<>>, okToast, "")>>,
                          <<>>)
        \* neither branch: the success message is shown without any write
        ELSE Outcome(inv, <<>>, <<okToast>>)

\* handleRevealMagicProperties, lines 654-681
handleRevealMagicPropertiesResult(inv, item, playerId, source, containerId) ==
    LET updatedItem == Merge(item, [magicPropertiesVisible |-> TRUE])
    IN  RewriteList(inv, playerId, source, containerId, item, updatedItem,
                    "reveal", "success: revealed")

\* handleDeleteItem, lines 690-715
handleDeleteItemResult(inv, item, playerId, source, containerId) ==
    RewriteList(inv, playerId, source, containerId, item, item, "delete", "success: deleted")

\* lines 770-771 and 1337-1338
canStayInPlace(item, otherItems, container) ==
    /\ ~outOfBounds(item.x, item.y, item, container.gridWidth, container.gridHeight)
    /\ \A k \in 1..Len(otherItems) : ~onOtherItem(item.x, item.y, item, otherItems[k])

\* handleAddItem with itemToEdit set, lines 759-816
handleEditItemResult(inv, dmId, itemToEdit, itemData) ==
    LET originalItem == itemToEdit.item
        containerId == itemToEdit.containerId
        finalPlayerId == itemToEdit.playerId
        playerInventory == inv[finalPlayerId]
        isTargetDM == dmId = finalPlayerId
        \* an item of a container's grid
        container == playerInventory.containers[containerId]
        otherItems == WithoutId(container.gridItems, originalItem.id)
        updatedItem == Merge(originalItem, itemData)
        trayItems0 == GetOr(playerInventory, "trayItems", <<>>)
        newSlot == findFirstAvailableSlot(otherItems, updatedItem,
                                          container.gridWidth, container.gridHeight)
        stays == canStayInPlace(updatedItem, otherItems, container)
        finalGridItems ==
            IF stays THEN ReplaceId(container.gridItems, originalItem.id, updatedItem)
            ELSE IF newSlot # Null THEN Append(otherItems, Merge(updatedItem, newSlot))
            ELSE otherItems
        finalTrayItems ==
            IF ~stays /\ newSlot = Null
            THEN Append(trayItems0, Omit(updatedItem, {"x", "y"}))
            ELSE trayItems0
        gridToast == IF stays THEN "success: updated"
                     ELSE IF newSlot # Null THEN "success: updated and moved"
                     ELSE "error: no space, moved to tray"
        \* an item of a tray
        isDMItem == isTargetDM /\ containerId # ""
        dmTray == GetOr(playerInventory.containers[containerId], "trayItems", <<>>)
        edited(list) == [k \in 1..Len(list) |->
                            IF list[k].id = originalItem.id THEN Merge(list[k], itemData) ELSE list[k]]
    IN  IF finalPlayerId \notin DOMAIN inv THEN Outcome(inv, <<>>, <<>>)
        ELSE IF containerId # "" /\ containerId # "tray" /\ ~isTargetDM
        THEN IF ~HasContainer(inv, finalPlayerId, containerId)
             THEN Outcome(inv, <<>>, <<>>)      \* a TypeError ends the handler
             ELSE Outcome(inv,
                          <<Request("edit",
                                    <<Update(finalPlayerId, containerId, [gridItems |-> finalGridItems]),
                                      Update(finalPlayerId, "", [trayItems |-> finalTrayItems])>>,
                                    FALSE, <<>>, "", "")>>,
                          <<gridToast>>)
        ELSE IF isDMItem
        THEN IF ~HasContainer(inv, finalPlayerId, containerId)
             THEN Outcome(inv, <<>>, <<>>)
             ELSE Outcome(inv,
                          <<Request("edit",
                                    <<Update(finalPlayerId, containerId, [trayItems |-> edited(dmTray)])>>,
                                    FALSE, <<>>, "success: updated", "")>>,
                          <<>>)
        ELSE Outcome(inv,
                     <<Request("edit",
                               <<Update(finalPlayerId, "", [trayItems |-> edited(trayItems0)])>>,
                               FALSE, <<>>, "success: updated", "")>>,
                     <<>>)

\* handleAddItem creating an item, lines 818-857
handleAddItemResult(inv, dmId, userId, viewerIsDM, itemData, targetPlayerId) ==
    LET finalPlayerId == IF targetPlayerId # "" /\ viewerIsDM THEN targetPlayerId ELSE userId
        isTargetDM == dmId = finalPlayerId
        targetInv == inv[finalPlayerId]
        cs == IF Has(targetInv, "containers") THEN ContainerIds(inv, finalPlayerId) ELSE <<>>
        defaultContainer == Head(cs)
        dmTray == Append(GetOr(targetInv.containers[defaultContainer], "trayItems", <<>>), itemData)
        tray == Append(GetOr(targetInv, "trayItems", <<>>), itemData)
    IN  IF finalPlayerId \notin DOMAIN inv THEN Outcome(inv, <<>>, <<>>)
        ELSE IF isTargetDM
        THEN IF cs = <<>> THEN Outcome(inv, <<>>, <<"error: DM has no containers">>)
             ELSE Outcome(SetContField(inv, finalPlayerId, defaultContainer, "trayItems", dmTray),
                          <<Request("add",
                                    <<Update(finalPlayerId, defaultContainer, [trayItems |-> dmTray])>>,
                                    TRUE, inv, "success: added", "error: add failed")>>,
                          <<>>)
        ELSE Outcome(SetInvField(inv, finalPlayerId, "trayItems", tray),
                     <<Request("add", <<Update(finalPlayerId, "", [trayItems |-> tray])>>,
                               TRUE, inv, "success: added", "error: add failed")>>,
                     <<>>)

\* handleSplitStack, lines 867-906; amount is parseInt(splitAmount, 10)
handleSplitStackResult(inv, splittingItem, amount, newId) ==
    LET originalItem == splittingItem.item
        playerId == splittingItem.playerId
        containerId == splittingItem.containerId
        container == inv[playerId].containers[containerId]
        updatedOriginalItem == Merge(originalItem, [quantity |-> originalItem.quantity - amount])
        newItem == Merge(originalItem, [id |-> newId, quantity |-> amount])
        itemsForCollisionCheck == ReplaceId(container.gridItems, originalItem.id, updatedOriginalItem)
        availableSlot == findFirstAvailableSlot(itemsForCollisionCheck, newItem,
                                                container.gridWidth, container.gridHeight)
        grid1 == IF availableSlot # Null
                 THEN Append(itemsForCollisionCheck, Merge(newItem, availableSlot))
                 ELSE itemsForCollisionCheck
        tray1 == IF availableSlot # Null THEN GetOr(container, "trayItems", <<>>)
                 ELSE Append(GetOr(container, "trayItems", <<>>), Omit(newItem, {"x", "y"}))
        originalItemInGrid == HasId(container.gridItems, originalItem.id)
        finalGridItems == IF originalItemInGrid
                          THEN ReplaceId(grid1, originalItem.id, updatedOriginalItem) ELSE grid1
        finalTrayItems == IF originalItemInGrid THEN tray1
                          ELSE ReplaceId(tray1, originalItem.id, updatedOriginalItem)
    IN  IF amount <= 0 \/ amount >= originalItem.quantity THEN Outcome(inv, <<>>, <<>>)
        ELSE IF playerId \notin DOMAIN inv \/ ~HasContainer(inv, playerId, containerId)
        THEN Outcome(inv, <<>>, <<>>)           \* a TypeError ends the handler
        ELSE Outcome(inv,
                     <<Request("split",
                               <<Update(playerId, containerId,
                                        [gridItems |-> finalGridItems, trayItems |-> finalTrayItems])>>,
                               FALSE, <<>>, "", "")>>,
                     <<>>)

\* lines 1206-1217: the item leaves every list of the source inventory
RECURSIVE RemoveFromContainers(_, _, _, _)
RemoveFromContainers(inv, p, cs, id) ==
    IF cs = <<>> THEN inv
    ELSE LET c == Head(cs)
             g == IF Has(inv[p].containers[c], "gridItems")
                  THEN SetContField(inv, p, c, "gridItems",
                                    WithoutId(inv[p].containers[c].gridItems, id))
                  ELSE inv
             t == IF Has(g[p].containers[c], "trayItems")
                  THEN SetContField(g, p, c, "trayItems",
                                    WithoutId(g[p].containers[c].trayItems, id))
                  ELSE g
         IN  RemoveFromContainers(t, p, Tail(cs), id)

\* handleSendItem, lines 1193-1265
handleSendItemResult(inv, item, source, sourcePlayerId, targetPlayerId) ==
    LET e == IF Has(inv[sourcePlayerId], "equippedItems")
             THEN SetInvField(inv, sourcePlayerId, "equippedItems",
                              WithoutId(inv[sourcePlayerId].equippedItems, item.id))
             ELSE inv
        t == IF Has(e[sourcePlayerId], "trayItems")
             THEN SetInvField(e, sourcePlayerId, "trayItems",
                              WithoutId(e[sourcePlayerId].trayItems, item.id))
             ELSE e
        c == IF Has(t[sourcePlayerId], "containers")
             THEN RemoveFromContainers(t, sourcePlayerId, ContainerIds(t, sourcePlayerId), item.id)
             ELSE t
        itemForTray == Omit(item, {"x", "y"})
        inv2 == SetInvField(c, targetPlayerId, "trayItems",
                            Append(GetOr(c[targetPlayerId], "trayItems", <<>>), itemForTray))
        writes == (IF Has(inv2[sourcePlayerId], "containers")
                   THEN MoveWrites(inv2, sourcePlayerId)
                   ELSE <<Update(sourcePlayerId, "",
                                 [trayItems |-> GetOr(inv2[sourcePlayerId], "trayItems", <<>>),
                                  equippedItems |-> GetOr(inv2[sourcePlayerId], "equippedItems", <<>>)])>>)
                  \o <<Update(targetPlayerId, "",
                              [trayItems |-> GetOr(inv2[targetPlayerId], "trayItems", <<>>),
                               equippedItems |-> GetOr(inv2[targetPlayerId], "equippedItems", <<>>)])>>
    IN  IF sourcePlayerId \notin DOMAIN inv \/ targetPlayerId \notin DOMAIN inv
        THEN Outcome(inv, <<>>, <<"error: inventory not found">>)
        ELSE Outcome(inv2,
                     <<Request("send", writes, TRUE, inv, "success: sent", "error: send failed")>>,
                     <<>>)

\* handleDuplicateItem, lines 1272-1316
handleDuplicateItemResult(inv, dmId, item, playerId, newId) ==
    LET playerInv == inv[playerId]
        newItem == Merge(Omit(item, {"x", "y"}), [id |-> newId])
        isPlayerDM == dmId = playerId
        cs == IF Has(playerInv, "containers") THEN ContainerIds(inv, playerId) ELSE <<>>
        container == Head(cs)
        dmTray == Append(GetOr(playerInv.containers[container], "trayItems", <<>>), newItem)
        tray == Append(GetOr(playerInv, "trayItems", <<>>), newItem)
    IN  IF playerId \notin DOMAIN inv THEN Outcome(inv, <<>>, <<>>)
        ELSE IF isPlayerDM
        THEN IF cs = <<>> THEN Outcome(inv, <<>>, <<"error: DM has no containers">>)
             ELSE Outcome(SetContField(inv, playerId, container, "trayItems", dmTray),
                          <<Request("duplicate",
                                    <<Update(playerId, container, [trayItems |-> dmTray])>>,
                                    TRUE, inv, "success: duplicated", "error: duplicate failed")>>,
                          <<>>)
        ELSE Outcome(SetInvField(inv, playerId, "trayItems", tray),
                     <<Request("duplicate", <<Update(playerId, "", [trayItems |-> tray])>>,
                               TRUE, inv, "success: duplicated", "error: duplicate failed")>>,
                     <<>>)

\* handleRotateItem, lines 1326-1371: computed on a copy that is only written
handleRotateItemResult(inv, item, playerId, containerId) ==
    LET container == inv[playerId].containers[containerId]
        rotatedItem == Merge(item, [w |-> item.h, h |-> item.w])
        otherItems == WithoutId(container.gridItems, item.id)
        stays == canStayInPlace(rotatedItem, otherItems, container)
        availableSlot == findFirstAvailableSlot(otherItems, rotatedItem,
                                                container.gridWidth, container.gridHeight)
        gridItems == IF stays THEN ReplaceId(container.gridItems, item.id, rotatedItem)
                     ELSE IF availableSlot # Null
                     THEN Append(otherItems, Merge(rotatedItem, availableSlot))
                     ELSE otherItems
        inv1 == SetContField(inv, playerId, containerId, "gridItems", gridItems)
        inv2 == IF ~stays /\ availableSlot = Null
                THEN SetInvField(inv1, playerId, "trayItems",
                                 Append(GetOr(inv1[playerId], "trayItems", <<>>),
                                        Omit(rotatedItem, {"x", "y"})))
                ELSE inv1
        toast == IF stays THEN "success: rotated"
                 ELSE IF availableSlot # Null THEN "success: rotated and moved"
                 ELSE "error: no space to rotate, moved to tray"
        writes == <<Update(playerId, "", [trayItems |-> GetOr(inv2[playerId], "trayItems", <<>>)])>> \o
                  Tail(MoveWrites(inv2, playerId))
    IN  IF playerId \notin DOMAIN inv \/ ~HasContainer(inv, playerId, containerId)
        THEN Outcome(inv, <<>>, <<>>)
        ELSE IF ~Has(container, "gridItems") THEN Outcome(inv, <<>>, <<>>)  \* a TypeError
        ELSE Outcome(inv, <<Request("rotate", writes, FALSE, <<>>, "", "")>>, <<toast>>)

----------------------------------------------------------------------------
(* Wallet.handleSave (src/unnamed/part_002, 55-77); values holds what the   *)
(* three number inputs contain                                              *)

\* handleSave without its check of the sign of the fields
handleSaveUnchecked(inv, inventoryId, values) ==
    Outcome(inv,
            <<Request("saveWallet",
                      <<Update(inventoryId, "",
                               [currency |-> [gp |-> values.gp, sp |-> values.sp,
                                              cp |-> values.cp]])>>,
                      FALSE, <<>>, "success: wallet updated", "error: wallet update failed")>>,
            <<>>)

handleSaveResult(inv, inventoryId, values) ==
    IF values.gp < 0 \/ values.sp < 0 \/ values.cp < 0
    THEN Outcome(inv, <<>>, <<"error: currency cannot be negative">>)
    ELSE Outcome(inv,
                 <<Request("saveWallet",
                           <<Update(inventoryId, "",
                                    [currency |-> [gp |-> values.gp, sp |-> values.sp,
                                                   cp |-> values.cp]])>>,
                           FALSE, <<>>, "success: wallet updated", "error: wallet update failed")>>,
                 <<>>)

----------------------------------------------------------------------------
(* What the page renders (PlayerInventory, part_001 29-198 and 1511-1648): *)
(* the draggable items and the droppable zones of the visible inventories  *)

DmId == "dm"

UserId == IF isDM THEN DmId ELSE "p1"

IsMerchant(inv, p) == GetOr(inv[p], "isMerchant", FALSE)

\* rendered with isLootPile = true: no header, no grids, no equipped tray
TrayOnly(inv, p) == p = LootPileId \/ IsMerchant(inv, p) \/ p = DmId

\* lootPileData, merchantData and orderedAndVisibleInventories (251-292)
VisibleOwners(inv) ==
    {p \in DOMAIN inv :
        \/ p = LootPileId /\ (isDM \/ GetOr(inv[p], "isVisibleToPlayers", FALSE))
        \/ IsMerchant(inv, p)
        \/ p # LootPileId /\ ~IsMerchant(inv, p) /\ (isDM \/ p = UserId)}

GridsOf(inv, p) ==
    IF TrayOnly(inv, p) \/ ~Has(inv[p], "containers") THEN {} ELSE DOMAIN inv[p].containers

\* InventoryItem.js 14-18: data of useDraggable and useDroppable
Rendered(ownerId, item, source, containerId) ==
    [ownerId |-> ownerId, item |-> item, source |-> source, containerId |-> containerId]

RenderedItems(inv) ==
    UNION {
        {Rendered(p, i, "tray", "tray") : i \in Range(GetOr(inv[p], "trayItems", <<>>))}
        \cup (IF TrayOnly(inv, p) THEN {}
              ELSE {Rendered(p, i, "equipped", "equipped") :
                        i \in Range(GetOr(inv[p], "equippedItems", <<>>))})
        \cup UNION {{Rendered(p, i, "grid", c) :
                        i \in Range(GetOr(inv[p].containers[c], "gridItems", <<>>))} :
                    c \in GridsOf(inv, p)}
        : p \in VisibleOwners(inv)}

\* the zones 'owner|container|destination' parsed at lines 973-976
Zones(inv) ==
    UNION {
        {Rendered(p, Null, "tray", "tray")}
        \cup (IF TrayOnly(inv, p) THEN {} ELSE {Rendered(p, Null, "equipped", "equipped")})
        \cup {Rendered(p, Null, "grid", c) : c \in GridsOf(inv, p)}
        : p \in VisibleOwners(inv)}

\* gridRefs.current: one element per rendered container id
GridRefs(inv) == UNION {GridsOf(inv, p) : p \in VisibleOwners(inv)}

----------------------------------------------------------------------------
(* Listeners of useCampaignStore.fetchCampaign *)

EmptyObject == [f \in {} |-> 0]

\* the inventories listener, lines 44-84: every document of the collection
\* is merged over the entry the local view already has
InventoriesSnapshot(inv, d) ==
    [p \in (DOMAIN inv) \cup (DOMAIN d) |->
        IF p \in DOMAIN d
        THEN Merge(Merge(IF p \in DOMAIN inv THEN inv[p] ELSE EmptyObject, d[p].doc), [id |-> p])
        ELSE inv[p]]

\* the containers listener of one owner, lines 67-80
ContainersSnapshot(inv, d, p) ==
    [q \in (DOMAIN inv) \cup {p} |->
        IF q = p
        THEN Merge(IF p \in DOMAIN inv THEN inv[p] ELSE EmptyObject,
                   [containers |-> [c \in DOMAIN d[p].containers |->
                                      Merge([id |-> c], d[p].containers[c])]])
        ELSE inv[q]]

RECURSIVE AllContainersSnapshot(_, _, _)
AllContainersSnapshot(inv, d, ps) ==
    IF ps = {} THEN inv
    ELSE LET p == CHOOSE q \in ps : TRUE
         IN  AllContainersSnapshot(ContainersSnapshot(inv, d, p), d, ps \ {p})

----------------------------------------------------------------------------
(* The campaign the model starts from: one character, the DM, a shop and    *)
(* the loot pile, loaded and in step with the store.  Containers carry the  *)
(* trayItems list that every move writes (lines 1155-1158).                 *)

GridSize == 2

Item(id, name, type, w, h, stackable, quantity, cost) ==
    [id |-> id, name |-> name, type |-> type, w |-> w, h |-> h,
     stackable |-> stackable, quantity |-> quantity, cost |-> cost]

Sword == Merge(Item(1, "Sword", "weapon", 1, 2, FALSE, 1, <<>>),
               [magicProperties |-> "+1", x |-> 1, y |-> 0])
Arrows1 == Merge(Item(2, "Arrows", "ammo", 1, 1, TRUE, 3, <<>>), [maxStack |-> 5, x |-> 0, y |-> 0])
ShopArrows == Item(3, "Arrows", "ammo", 1, 1, TRUE, 2, <<"2", " ", "G", "P">>)
ShopArmor == Item(4, "Armor", "armor", 2, 2, FALSE, 1, <<"1", "s", "p">>)

Container(name, gridWidth, gridHeight, gridItems) ==
    [name |-> name, gridWidth |-> gridWidth, gridHeight |-> gridHeight,
     gridItems |-> gridItems, trayItems |-> <<>>]

NoContainers == [c \in {} |-> 0]

InitDb ==
    [p \in {"p1", DmId, "shop", LootPileId} |->
        CASE p = "p1" ->
                [doc |-> [characterName |-> "Alice", ownerId |-> "p1",
                          trayItems |-> <<>>, equippedItems |-> <<>>,
                          currency |-> [gp |-> 0, sp |-> 1, cp |-> 5]],
                 containers |-> [c \in {"backpack", "pouch"} |->
                                    IF c = "backpack"
                                    THEN Container("Backpack", GridSize, GridSize, <<Arrows1, Sword>>)
                                    ELSE Container("Pouch", 1, 1, <<>>)]]
          [] p = DmId ->
                [doc |-> [characterName |-> "DM", ownerId |-> DmId, trayItems |-> <<>>],
                 containers |-> [c \in {"backpack"} |->
                                    Container("Backpack", GridSize, GridSize, <<>>)]]
          [] p = "shop" ->
                [doc |-> [characterName |-> "Shop", ownerId |-> "shop", isMerchant |-> TRUE,
                          trayItems |-> <<ShopArrows, ShopArmor>>, currency |-> ZeroWallet],
                 containers |-> NoContainers]
          [] OTHER ->
                [doc |-> [characterName |-> "Loot Pile", ownerId |-> LootPileId,
                          isLootPile |-> TRUE, isVisibleToPlayers |-> TRUE,
                          trayItems |-> <<>>, currency |-> ZeroWallet],
                 containers |-> NoContainers]]

\* campaign.players
Players == {DmId, "p1"}

\* the campaign the model writes to, and another one the viewer can switch to
HomeCampaign == "A"

OtherCampaign == "B"

\* the campaign document (CampaignSelector.js 124-132, JoinCampaign.js 90-94)
Campaign(c) == [id |-> c, dmId |-> DmId, players |-> Players]

\* the inventories of the other campaign, as created: a DM and a character
\* without items (CampaignSelector.js 134-147, JoinCampaign.js 96-113)
OtherDb ==
    [p \in {"p1", DmId} |->
        IF p = DmId
        THEN [doc |-> [characterName |-> "DM", ownerId |-> DmId, trayItems |-> <<>>],
              containers |-> [c \in {"backpack"} |-> Container("Backpack", 1, 1, <<>>)]]
        ELSE [doc |-> [characterName |-> "Bob", ownerId |-> "p1", trayItems |-> <<>>,
                       currency |-> ZeroWallet],
              containers |-> [c \in {"backpack"} |-> Container("Backpack", 1, 1, <<>>)]]]

\* the documents a listener of campaign c reads
StoreOf(c) == IF c = HomeCampaign THEN db ELSE OtherDb

\* what onSnapshot returns: the subscription, which is its own unsubscribe
\* handle; n tells the subscriptions of successive fetches apart
Sub(kind, c, owner, n) == [kind |-> kind, campaignId |-> c, owner |-> owner, n |-> n]

\* the subscriptions of a campaign c whose listeners have all been set up
AllSubs(c, d, n) ==
    {Sub("campaign", c, "", n), Sub("inventories", c, "", n)}
    \cup {Sub("containers", c, p, n) : p \in DOMAIN d}

\* no trade exists and no invitation is on screen
NoTrades ==
    /\ tradeDb = EmptyObject
    /\ tradeToasts = {}
    /\ tradeKnown = [u \in Players |-> {}]
    /\ tradeLog = [last |-> [name |-> "init"], declined |-> {}, shown |-> 0]

\* the campaign d is loaded: both listeners have delivered the store's content
Loaded(d) ==
    /\ campaignId = HomeCampaign
    /\ campaignData = Campaign(HomeCampaign)
    /\ campaignListener = Sub("campaign", HomeCampaign, "", 0)
    /\ inventoriesListener = Sub("inventories", HomeCampaign, "", 0)
    /\ containerListeners = [p \in DOMAIN d |-> Sub("containers", HomeCampaign, p, 0)]
    /\ subs = AllSubs(HomeCampaign, d, 0)
    /\ mounts = 0
    /\ NoTrades
    /\ db = d
    /\ inventories = AllContainersSnapshot(InventoriesSnapshot(EmptyObject, d), d, DOMAIN d)
    /\ pending = <<>>
    /\ invDirty = FALSE
    /\ contDirty = [p \in DOMAIN d |-> FALSE]
    /\ modal = Null
    /\ lastToast = <<>>
    /\ nextId = 100
    /\ lastOp = [name |-> "init"]
    /\ transferred = Null

Init ==
    /\ Loaded(InitDb)
    /\ isDM \in BOOLEAN
    /\ opsLeft = MaxOps
    /\ visitsLeft = 0
    /\ ledger = Null
    /\ placement = Null

\* a player's session in a campaign without shop and loot pile, with one
\* more operation, for the runs that follow drags and the split dialog only
InitSplit ==
    /\ Loaded([p \in {"p1", DmId} |-> InitDb[p]])
    /\ isDM = FALSE
    /\ opsLeft = MaxOps + 1
    /\ visitsLeft = 0
    /\ ledger = Null
    /\ placement = Null

----------------------------------------------------------------------------
(* Steps *)

InInventory(inv, p, id) ==
    \/ HasId(GetOr(inv[p], "trayItems", <<>>), id)
    \/ HasId(GetOr(inv[p], "equippedItems", <<>>), id)
    \/ Has(inv[p], "containers") /\
       \E c \in DOMAIN inv[p].containers :
           \/ HasId(GetOr(inv[p].containers[c], "gridItems", <<>>), id)
           \/ HasId(GetOr(inv[p].containers[c], "trayItems", <<>>), id)

\* the store's content in the shape of the local view
DbView(d) == [p \in DOMAIN d |-> Merge(d[p].doc, [containers |-> d[p].containers])]

\* history kept with a request: the local view its operation started from
\* and, for a payment, whether the operation left the item with the buyer
Issued(r, q) ==
    Merge(q, [pre |-> inventories, mount |-> mounts,
              landed |-> IF q.op = "pay" THEN InInventory(r.inv, q.to, q.item) ELSE TRUE])

\* history: the last transfer between two owners that started with no write
\* in flight and the item at its source in the store, forgotten when a later
\* operation is invoked on that item
Transfer(r, itemId, from, to) ==
    IF /\ from # to
       /\ \E k \in 1..Len(r.reqs) : r.reqs[k].op \in {"move", "send"}
       /\ pending = <<>>
       /\ from \in DOMAIN db /\ InInventory(DbView(db), from, itemId)
    THEN [id |-> itemId, from |-> from, to |-> to]
    ELSE IF transferred # Null /\ transferred.id = itemId THEN Null
    ELSE transferred

\* a handler ran: its outcome becomes the state
Invoke(r, name, itemId, from, to) ==
    /\ opsLeft > 0
    /\ inventories' = r.inv
    /\ pending' = pending \o [k \in 1..Len(r.reqs) |-> Issued(r, r.reqs[k])]
    /\ lastToast' = r.toasts
    /\ opsLeft' = opsLeft - 1
    /\ lastOp' = [name |-> name, issued |-> Len(r.reqs)]
    /\ transferred' = Transfer(r, itemId, from, to)
    /\ UNCHANGED <<db, invDirty, contDirty, isDM>>

\* handleContextMenu, lines 411-420
canEdit(playerId) ==
    \/ UserId = playerId /\ playerId # LootPileId /\ ~IsMerchant(inventories, playerId)
    \/ isDM

\* the cells a drop can be rounded to (lines 1111-1115)
DropCoords(over) ==
    IF over.source = "grid" /\ HasContainer(inventories, over.ownerId, over.containerId)
    THEN 0..(inventories[over.ownerId].containers[over.containerId].gridWidth - 1)
    ELSE {0}

handleDragEnd ==
    /\ modal = Null
    /\ \E d \in RenderedItems(inventories) :
         \E o \in RenderedItems(inventories) \cup Zones(inventories) :
           \E x \in DropCoords(o), y \in DropCoords(o) :
             Invoke(handleDragEndResult(inventories, isDM, GridRefs(inventories), d.item,
                                        d.ownerId, d.containerId, d.source, o, x, y),
                    "handleDragEnd", d.item.id, d.ownerId, o.ownerId)
    /\ UNCHANGED <<nextId, modal>>
    /\ UNCHANGED <<storeVars, tradeVars, ledger, placement>>

\* the owner is neither the DM, the loot pile nor a merchant (line 428)
Wearer(playerId) ==
    playerId # DmId /\ playerId # LootPileId /\ ~IsMerchant(inventories, playerId)

handleEquipItem ==
    /\ modal = Null
    /\ \E d \in RenderedItems(inventories) :
         /\ Wearer(d.ownerId) /\ d.source # "equipped"
         /\ Invoke(handleEquipItemResult(inventories, d.item, d.ownerId, d.source, d.containerId),
                   "handleEquipItem", d.item.id, d.ownerId, d.ownerId)
    /\ UNCHANGED <<nextId, modal>>
    /\ UNCHANGED <<storeVars, tradeVars, ledger, placement>>

handleUnequipItem ==
    /\ modal = Null
    /\ \E d \in RenderedItems(inventories) :
         /\ Wearer(d.ownerId) /\ d.source = "equipped"
         /\ Invoke(handleUnequipItemResult(inventories, d.item, d.ownerId),
                   "handleUnequipItem", d.item.id, d.ownerId, d.ownerId)
    /\ UNCHANGED <<nextId, modal>>
    /\ UNCHANGED <<storeVars, tradeVars, ledger, placement>>

handleRevealMagicProperties ==
    /\ modal = Null
    /\ \E d \in RenderedItems(inventories) :
         /\ isDM /\ Has(d.item, "magicProperties")
         /\ ~GetOr(d.item, "magicPropertiesVisible", FALSE)
         /\ Invoke(handleRevealMagicPropertiesResult(inventories, d.item, d.ownerId,
                                                     d.source, d.containerId),
                   "handleRevealMagicProperties", d.item.id, d.ownerId, d.ownerId)
    /\ UNCHANGED <<nextId, modal>>
    /\ UNCHANGED <<storeVars, tradeVars, ledger, placement>>

handleRotateItem ==
    /\ modal = Null
    /\ \E d \in RenderedItems(inventories) :
         /\ d.source = "grid"
         /\ Invoke(handleRotateItemResult(inventories, d.item, d.ownerId, d.containerId),
                   "handleRotateItem", d.item.id, d.ownerId, d.ownerId)
    /\ UNCHANGED <<nextId, modal>>
    /\ UNCHANGED <<storeVars, tradeVars, ledger, placement>>

handleSendItem ==
    /\ modal = Null
    /\ isDM
    /\ \E d \in RenderedItems(inventories) :
         \E targetId \in Players \ {d.ownerId} :
           Invoke(handleSendItemResult(inventories, d.item, d.source, d.ownerId, targetId),
                  "handleSendItem", d.item.id, d.ownerId, targetId)
    /\ UNCHANGED <<nextId, modal>>
    /\ UNCHANGED <<storeVars, tradeVars, ledger, placement>>

handleDuplicateItem ==
    /\ modal = Null
    /\ \E d \in RenderedItems(inventories) :
         /\ canEdit(d.ownerId)
         /\ Invoke(handleDuplicateItemResult(inventories, DmId, d.item, d.ownerId, nextId),
                   "handleDuplicateItem", nextId, d.ownerId, d.ownerId)
    /\ nextId' = nextId + 1
    /\ UNCHANGED modal
    /\ UNCHANGED <<storeVars, tradeVars, ledger, placement>>

handleDeleteItem ==
    /\ modal = Null
    /\ \E d \in RenderedItems(inventories) :
         /\ canEdit(d.ownerId)
         /\ Invoke(handleDeleteItemResult(inventories, d.item, d.ownerId, d.source, d.containerId),
                   "handleDeleteItem", d.item.id, d.ownerId, d.ownerId)
    /\ UNCHANGED <<nextId, modal>>
    /\ UNCHANGED <<storeVars, tradeVars, ledger, placement>>

\* handleStartSplit, lines 642-644, offered at lines 474-479
handleStartSplit ==
    /\ modal = Null
    /\ opsLeft > 0
    /\ \E d \in RenderedItems(inventories) :
         /\ canEdit(d.ownerId) /\ d.item.stackable /\ d.item.quantity > 1
         /\ modal' = [kind |-> "split", item |-> d.item, playerId |-> d.ownerId,
                      containerId |-> d.containerId]
    /\ opsLeft' = opsLeft - 1
    /\ lastOp' = [name |-> "handleStartSplit", issued |-> 0]
    /\ lastToast' = <<>>
    /\ UNCHANGED <<db, inventories, pending, invDirty, contDirty, isDM, nextId, transferred>>
    /\ UNCHANGED <<storeVars, tradeVars, ledger, placement>>

\* the dialog is submitted and closes (lines 1460 and 905)
handleSplitStack ==
    /\ modal # Null /\ modal.kind = "split"
    /\ \E amount \in 0..modal.item.quantity :
         LET r == handleSplitStackResult(inventories, modal, amount, nextId)
         IN  /\ inventories' = r.inv
             /\ pending' = pending \o [k \in 1..Len(r.reqs) |-> Issued(r, r.reqs[k])]
             /\ lastToast' = r.toasts
             /\ lastOp' = [name |-> "handleSplitStack", issued |-> Len(r.reqs)]
    /\ nextId' = nextId + 1
    /\ modal' = Null
    /\ transferred' = IF transferred # Null /\ transferred.id = modal.item.id
                      THEN Null ELSE transferred
    /\ UNCHANGED <<db, invDirty, contDirty, isDM, opsLeft>>
    /\ UNCHANGED <<storeVars, tradeVars, ledger, placement>>

\* handleStartEdit, lines 723-727, offered at lines 484-490
handleStartEdit ==
    /\ modal = Null
    /\ opsLeft > 0
    /\ \E d \in RenderedItems(inventories) :
         /\ canEdit(d.ownerId)
         /\ modal' = [kind |-> "edit", item |-> d.item, playerId |-> d.ownerId,
                      containerId |-> d.containerId]
    /\ opsLeft' = opsLeft - 1
    /\ lastOp' = [name |-> "handleStartEdit", issued |-> 0]
    /\ lastToast' = <<>>
    /\ UNCHANGED <<db, inventories, pending, invDirty, contDirty, isDM, nextId, transferred>>
    /\ UNCHANGED <<storeVars, tradeVars, ledger, placement>>

\* what the form of AddItem can return for an existing item: a new size
EditData == {[w |-> 1, h |-> 1], [w |-> 2, h |-> 2]}

\* handleAddItem with itemToEdit set: the form is submitted and closes
\* (lines 1470-1472 and 859)
handleEditItem ==
    /\ modal # Null /\ modal.kind = "edit"
    /\ \E itemData \in EditData :
         LET r == handleEditItemResult(inventories, DmId, modal, itemData)
         IN  /\ inventories' = r.inv
             /\ pending' = pending \o [k \in 1..Len(r.reqs) |-> Issued(r, r.reqs[k])]
             /\ lastToast' = r.toasts
             /\ lastOp' = [name |-> "handleEditItem", issued |-> Len(r.reqs)]
    /\ modal' = Null
    /\ transferred' = IF transferred # Null /\ transferred.id = modal.item.id
                      THEN Null ELSE transferred
    /\ UNCHANGED <<db, invDirty, contDirty, isDM, nextId, opsLeft>>
    /\ UNCHANGED <<storeVars, tradeVars, ledger, placement>>

\* handleAddItem creating an item, from the form or, for the DM, from the
\* compendium with a target player
handleAddItem ==
    /\ modal = Null
    /\ \E targetPlayerId \in (IF isDM THEN {"", "p1"} ELSE {""}) :
         Invoke(handleAddItemResult(inventories, DmId, UserId, isDM,
                                    Item(nextId, "Potion", "potion", 1, 1, FALSE, 1, <<>>),
                                    targetPlayerId),
                "handleAddItem", nextId, UserId, UserId)
    /\ nextId' = nextId + 1
    /\ UNCHANGED modal
    /\ UNCHANGED <<storeVars, tradeVars, ledger, placement>>

\* what the user can type into one number input of the wallet dialog
WalletInputs == {-1, 1}

\* Wallet.handleSave on a wallet the viewer can edit (part_001 line 83):
\* the viewer's own inventory
handleSave ==
    /\ modal = Null
    /\ \E f \in {"gp", "cp"}, v \in WalletInputs :
         LET safeCurrency == GetOr(inventories[UserId], "currency", ZeroWallet)
             r == handleSaveResult(inventories, UserId, Merge(safeCurrency, (f :> v)))
         IN  Invoke(r, "handleSave", 0, UserId, UserId)
    /\ UNCHANGED <<nextId, modal>>
    /\ UNCHANGED <<storeVars, tradeVars, ledger, placement>>

\* a subscription to the documents the model writes to is being served
Listening(kind, owner) ==
    \E l \in subs : l.kind = kind /\ l.owner = owner /\ l.campaignId = HomeCampaign

\* the store commits the oldest request: all its updates at once
Commit ==
    /\ pending # <<>>
    /\ \A k \in 1..Len(Head(pending).writes) : WriteTargetExists(db, Head(pending).writes[k])
    /\ db' = ApplyBatch(db, Head(pending).writes)
    /\ pending' = Tail(pending)
    /\ invDirty' = (invDirty \/ (Listening("inventories", "") /\
                                  \E p \in DOMAIN db' :
                                      p \notin DOMAIN db \/ db'[p].doc # db[p].doc))
    /\ contDirty' = [p \in DOMAIN contDirty |->
                        contDirty[p] \/ (p \in DOMAIN db /\ Listening("containers", p) /\
                                         db'[p].containers # db[p].containers)]
    /\ lastToast' = IF Head(pending).okToast = "" THEN <<>> ELSE <<Head(pending).okToast>>
    /\ lastOp' = [name |-> "commit", op |-> Head(pending).op]
    /\ UNCHANGED <<inventories, isDM, modal, nextId, opsLeft, transferred>>
    /\ UNCHANGED <<storeVars, tradeVars, ledger, placement>>

\* a rejection after which no handler restores the local view
RejectWithoutRestore ==
    /\ pending # <<>>
    /\ pending' = Tail(pending)
    /\ lastToast' = IF Head(pending).failToast = "" THEN <<>> ELSE <<Head(pending).failToast>>
    /\ lastOp' = [name |-> "reject", op |-> Head(pending).op, restored |-> FALSE]
    /\ UNCHANGED <<db, inventories, invDirty, contDirty, isDM, modal, nextId, opsLeft,
                   transferred>>
    /\ UNCHANGED <<storeVars, tradeVars, ledger, placement>>

\* the store rejects the oldest request: the catch block of its handler, if any
Reject ==
    /\ pending # <<>>
    /\ inventories' = IF Head(pending).rollback THEN Head(pending).orig ELSE inventories
    /\ pending' = Tail(pending)
    /\ lastToast' = IF Head(pending).failToast = "" THEN <<>> ELSE <<Head(pending).failToast>>
    /\ lastOp' = [name |-> "reject", op |-> Head(pending).op,
                   restored |-> inventories' # inventories]
    /\ UNCHANGED <<db, invDirty, contDirty, isDM, modal, nextId, opsLeft, transferred>>
    /\ UNCHANGED <<storeVars, tradeVars, ledger, placement>>

\* the campaign listener (useCampaignStore.js 34-40) delivers the document
onCampaignSnapshot ==
    /\ \E l \in subs :
         /\ l.kind = "campaign"
         /\ campaignData # Campaign(l.campaignId)
         /\ campaignData' = Campaign(l.campaignId)
    /\ lastOp' = [name |-> "onCampaignSnapshot"]
    /\ UNCHANGED <<db, inventories, pending, invDirty, contDirty, isDM, modal, lastToast,
                   nextId, opsLeft, transferred, campaignId, campaignListener,
                   inventoriesListener, containerListeners, subs, visitsLeft, mounts,
                   tradeVars, ledger, placement>>

\* the inventories listener (lines 44-84): it drops the container listeners
\* of owners that left, merges every document into the local view and
\* subscribes to the containers of every owner it has no listener for
onInventoriesSnapshot ==
    /\ invDirty
    /\ \E l \in subs :
         /\ l.kind = "inventories"
         /\ LET d == StoreOf(l.campaignId)
                 gone == {p \in DOMAIN containerListeners : p \notin DOMAIN d}
                 new == {p \in DOMAIN d : p \notin DOMAIN containerListeners}
             IN  /\ inventories' = InventoriesSnapshot(inventories, d)
                 /\ containerListeners' =
                        [p \in ((DOMAIN containerListeners) \ gone) \cup new |->
                            IF p \in new THEN Sub("containers", l.campaignId, p, l.n)
                            ELSE containerListeners[p]]
                 /\ subs' = (subs \ {containerListeners[p] : p \in gone})
                             \cup {Sub("containers", l.campaignId, p, l.n) : p \in new}
                 /\ contDirty' = [p \in (DOMAIN contDirty) \cup new |->
                                     \/ p \in new
                                     \/ p \in DOMAIN contDirty /\ contDirty[p] /\ p \notin gone]
    /\ invDirty' = FALSE
    /\ lastOp' = [name |-> "onInventoriesSnapshot"]
    /\ UNCHANGED <<db, pending, isDM, modal, lastToast, nextId, opsLeft, transferred,
                   campaignId, campaignData, campaignListener, inventoriesListener,
                   visitsLeft, mounts, tradeVars, ledger, placement>>

\* the containers listener of one owner (lines 67-80)
onContainersSnapshot ==
    /\ \E l \in subs :
         /\ l.kind = "containers"
         /\ contDirty[l.owner]
         /\ inventories' = ContainersSnapshot(inventories, StoreOf(l.campaignId), l.owner)
         /\ contDirty' = [contDirty EXCEPT ![l.owner] = FALSE]
    /\ lastOp' = [name |-> "onContainersSnapshot"]
    /\ UNCHANGED <<db, pending, invDirty, isDM, modal, lastToast, nextId, opsLeft,
                   transferred, storeVars, tradeVars, ledger, placement>>

\* clearCampaign forgetting the listeners of the containers
clearCampaignHandlesNoContainers ==
    {l \in {campaignListener, inventoriesListener} : l # Null}

\* the handles clearCampaign calls (lines 110-113)
clearCampaignHandles ==
    {l \in {campaignListener, inventoriesListener} : l # Null}
    \cup {containerListeners[p] : p \in DOMAIN containerListeners}

\* clearCampaign (useCampaignStore.js 109-123): what it leaves of the store
\* state and of the subscriptions; a notification without a subscription
\* left to deliver it to is dropped
clearCampaignEffect ==
    /\ campaignData' = Null
    /\ inventories' = EmptyObject
    /\ mounts' = mounts + 1
    /\ contDirty' = [p \in DOMAIN contDirty |->
                        contDirty[p] /\ \E l \in subs' : l.kind = "containers" /\ l.owner = p]
    /\ UNCHANGED <<db, pending, isDM, modal, lastToast, nextId, opsLeft, transferred,
                   tradeVars, ledger, placement>>

\* the view is left: the cleanup of the effect (part_001 236-241)
clearCampaign ==
    /\ visitsLeft > 0
    /\ campaignId # ""
    /\ campaignId' = ""
    /\ visitsLeft' = visitsLeft - 1
    /\ subs' = subs \ clearCampaignHandles
    /\ campaignListener' = Null
    /\ inventoriesListener' = Null
    /\ containerListeners' = EmptyObject
    /\ invDirty' = (invDirty /\ \E l \in subs' : l.kind = "inventories")
    /\ clearCampaignEffect
    /\ lastOp' = [name |-> "clearCampaign"]

\* the view is opened on campaign c or switched to it: the cleanup of the
\* effect, if it was mounted, and fetchCampaign(c) (useCampaignStore.js 23-92)
fetchCampaign ==
    /\ visitsLeft > 0
    /\ \E c \in {HomeCampaign, OtherCampaign} \ {campaignId} :
         /\ campaignId' = c
         /\ subs' = (subs \ clearCampaignHandles)
                     \cup {Sub("campaign", c, "", mounts + 1),
                           Sub("inventories", c, "", mounts + 1)}
         /\ campaignListener' = Sub("campaign", c, "", mounts + 1)
         /\ inventoriesListener' = Sub("inventories", c, "", mounts + 1)
    /\ visitsLeft' = visitsLeft - 1
    /\ containerListeners' = EmptyObject
    /\ invDirty' = TRUE
    /\ clearCampaignEffect
    /\ lastOp' = [name |-> "fetchCampaign"]

Next ==
    \/ handleDragEnd
    \/ handleEquipItem
    \/ handleUnequipItem
    \/ handleRevealMagicProperties
    \/ handleRotateItem
    \/ handleSendItem
    \/ handleDuplicateItem
    \/ handleDeleteItem
    \/ handleStartSplit
    \/ handleSplitStack
    \/ handleStartEdit
    \/ handleEditItem
    \/ handleAddItem
    \/ handleSave
    \/ Commit
    \/ Reject
    \/ onInventoriesSnapshot
    \/ onContainersSnapshot

Spec == Init /\ [][Next]_vars

NextSplit ==
    \/ handleDragEnd
    \/ handleStartSplit
    \/ handleSplitStack
    \/ Commit
    \/ Reject
    \/ onInventoriesSnapshot
    \/ onContainersSnapshot

SplitSpec == InitSplit /\ [][NextSplit]_vars

\* a stack of arrows; maxStack = 0: the item has no maxStack field
Stack(id, quantity, maxStack) ==
    Merge(Item(id, "Arrows", "ammo", 1, 1, TRUE, quantity, <<>>),
          IF maxStack = 0 THEN EmptyObject ELSE [maxStack |-> maxStack])

\* a character who carries stacks of arrows in every place an item can be:
\* two in the backpack (one of them full), one filling the pouch, one on the
\* floor, one equipped, and on the floor a single arrow that is not stackable
StackDb ==
    [p \in {"p1", DmId} |->
        IF p = DmId THEN InitDb[DmId]
        ELSE [doc |-> [characterName |-> "Alice", ownerId |-> "p1",
                       trayItems |-> <<Stack(4, 5, 20),
                                       Item(6, "Arrows", "ammo", 1, 1, FALSE, 1, <<>>)>>,
                       equippedItems |-> <<Stack(5, 3, 8)>>,
                       currency |-> ZeroWallet],
              containers |-> [c \in {"backpack", "pouch"} |->
                  IF c = "backpack"
                  THEN Container("Backpack", GridSize, GridSize,
                                 <<Merge(Stack(2, 18, 0), [x |-> 0, y |-> 0]),
                                   Merge(Stack(3, 5, 5), [x |-> 1, y |-> 0])>>)
                  ELSE Container("Pouch", 1, 1, <<Merge(Stack(7, 2, 10), [x |-> 0, y |-> 0])>>)]]]

InitStack ==
    /\ Loaded(StackDb)
    /\ isDM = FALSE
    /\ opsLeft = MaxOps
    /\ visitsLeft = 0
    /\ ledger = Null
    /\ placement = Null

StackSpec == InitStack /\ [][NextSplit]_vars

\* handleEquipItem(item, playerId, source, containerId) called for an item on
\* screen with any source and container: the list it names may not hold the item
handleEquipItemCalled ==
    /\ modal = Null
    /\ \E d \in RenderedItems(inventories) :
         \E source \in {"grid", "tray"}, containerId \in GridsOf(inventories, d.ownerId) \cup {"tray"} :
            /\ Wearer(d.ownerId)
            /\ Invoke(handleEquipItemResult(inventories, d.item, d.ownerId, source, containerId),
                      "handleEquipItem", d.item.id, d.ownerId, d.ownerId)
    /\ UNCHANGED <<nextId, modal>>
    /\ UNCHANGED <<storeVars, tradeVars, ledger, placement>>

\* handleUnequipItem(item, playerId) called for any item on screen: the
\* equipped list may not hold it
handleUnequipItemCalled ==
    /\ modal = Null
    /\ \E d \in RenderedItems(inventories) :
         /\ Wearer(d.ownerId)
         /\ Invoke(handleUnequipItemResult(inventories, d.item, d.ownerId),
                   "handleUnequipItem", d.item.id, d.ownerId, d.ownerId)
    /\ UNCHANGED <<nextId, modal>>
    /\ UNCHANGED <<storeVars, tradeVars, ledger, placement>>

NextEquip ==
    \/ handleEquipItemCalled
    \/ handleUnequipItemCalled
    \/ Commit
    \/ Reject
    \/ onInventoriesSnapshot
    \/ onContainersSnapshot

EquipSpec == InitStack /\ [][NextEquip]_vars

\* a character who wears a ring and a shield as large as the backpack; the
\* backpack is empty, holds a gem in its first cell or is filled by a chest,
\* and the pouch is empty or holds a coin
Worn(backpackItems, pouchItems) ==
    [p \in {"p1", DmId} |->
        IF p = DmId THEN InitDb[DmId]
        ELSE [doc |-> [characterName |-> "Alice", ownerId |-> "p1",
                       trayItems |-> <<>>,
                       equippedItems |-> <<Item(10, "Ring", "ring", 1, 1, FALSE, 1, <<>>),
                                           Item(11, "Shield", "armor", GridSize, GridSize,
                                                FALSE, 1, <<>>)>>,
                       currency |-> ZeroWallet],
              containers |-> [c \in {"backpack", "pouch"} |->
                  IF c = "backpack"
                  THEN Container("Backpack", GridSize, GridSize, backpackItems)
                  ELSE Container("Pouch", 1, 1, pouchItems)]]]

InitUnequip ==
    /\ \E backpackItems \in {<<>>,
                              <<Merge(Item(12, "Gem", "gem", 1, 1, FALSE, 1, <<>>),
                                      [x |-> 0, y |-> 0])>>,
                              <<Merge(Item(13, "Chest", "box", GridSize, GridSize, FALSE, 1, <<>>),
                                      [x |-> 0, y |-> 0])>>},
          pouchItems \in {<<>>, <<Merge(Item(14, "Coin", "gem", 1, 1, FALSE, 1, <<>>),
                                        [x |-> 0, y |-> 0])>>} :
          Loaded(Worn(backpackItems, pouchItems))
    /\ isDM = FALSE
    /\ opsLeft = MaxOps
    /\ visitsLeft = 0
    /\ ledger = Null
    /\ placement = Null

UnequipSpec == InitUnequip /\ [][NextEquip]_vars

\* a player with 3 silver pieces next to a shop that also sells a potion for
\* 5 copper pieces, and a loot pile that holds an arrow and 1 silver piece
MarketDb ==
    [InitDb EXCEPT !["p1"].doc.currency = [gp |-> 0, sp |-> 3, cp |-> 0],
                   !["shop"].doc.trayItems =
                       @ \o <<Item(5, "Potion", "potion", 1, 1, FALSE, 1, <<"5", "c", "p">>)>>,
                   ![LootPileId].doc.trayItems = <<Stack(8, 1, 5)>>,
                   ![LootPileId].doc.currency = [gp |-> 0, sp |-> 1, cp |-> 0]]

InitMarket ==
    /\ Loaded(MarketDb)
    /\ isDM = FALSE
    /\ opsLeft = MaxOps
    /\ visitsLeft = 0
    /\ ledger = Null
    /\ placement = Null

MarketSpec == InitMarket /\ [][NextSplit]_vars

\* the effect of part_001 395-399 calling createLootPile (useCampaignStore.js
\* 145-156): the page of the DM is not loading and knows no loot pile; the
\* write is not awaited by anything and nothing follows it
createLootPile ==
    /\ isDM
    /\ campaignId # ""
    /\ LootPileId \notin DOMAIN inventories
    /\ \A k \in 1..Len(pending) : pending[k].op # "createLootPile"
    /\ pending' = Append(pending,
                         Issued(Outcome(inventories, <<>>, <<>>),
                                Request("createLootPile",
                                        <<SetMerge(LootPileId,
                                                   [characterName |-> "Loot Pile",
                                                    ownerId |-> LootPileId,
                                                    trayItems |-> <<>>,
                                                    isLootPile |-> TRUE,
                                                    currency |-> ZeroWallet])>>,
                                        FALSE, <<>>, "", "")))
    /\ lastOp' = [name |-> "createLootPile", issued |-> 1]
    /\ UNCHANGED <<db, inventories, invDirty, contDirty, isDM, modal, lastToast, nextId,
                   opsLeft, transferred>>
    /\ UNCHANGED <<storeVars, tradeVars, ledger, placement>>

\* the DM opens a campaign that has no loot pile yet
InitLoot ==
    /\ Loaded([p \in {"p1", DmId} |-> InitDb[p]])
    /\ isDM = TRUE
    /\ opsLeft = MaxOps
    /\ visitsLeft = 0
    /\ ledger = Null
    /\ placement = Null

NextLoot ==
    \/ createLootPile
    \/ handleDragEnd
    \/ Commit
    \/ Reject
    \/ onInventoriesSnapshot
    \/ onContainersSnapshot

LootSpec == InitLoot /\ [][NextLoot]_vars

\* a player's session that can leave the view and come back or switch campaigns
InitTeardown ==
    /\ Loaded([p \in {"p1", DmId} |-> InitDb[p]])
    /\ isDM = FALSE
    /\ opsLeft = MaxOps
    /\ visitsLeft = MaxVisits
    /\ ledger = Null
    /\ placement = Null

NextTeardown ==
    \/ handleDragEnd
    \/ handleEquipItem
    \/ Commit
    \/ Reject
    \/ onCampaignSnapshot
    \/ onInventoriesSnapshot
    \/ onContainersSnapshot
    \/ clearCampaign
    \/ fetchCampaign

TeardownSpec == InitTeardown /\ [][NextTeardown]_vars

----------------------------------------------------------------------------
(* The currency ledger on its own: a wallet and a cost are given, the cost  *)
(* is deducted, added back in copper and the wallet deducted again by 0;    *)
(* or the wallet is deducted by 0 twice                                     *)

Wallets == [gp : 0..MaxGp, sp : 0..MaxCoin, cp : 0..MaxCoin]

InitLedger ==
    /\ Loaded([p \in {"p1", DmId} |-> InitDb[p]])
    /\ isDM = FALSE
    /\ opsLeft = 0
    /\ visitsLeft = 0
    /\ ledger \in [wallet : Wallets, cost : 0..MaxCost, step : {"given"}]
    /\ placement = Null

besideLedger == <<db, inventories, pending, invDirty, contDirty, isDM, modal, lastToast,
                  nextId, opsLeft, lastOp, transferred, storeVars, tradeVars,
                  placement>>

\* deductCurrency(wallet, cost)
deduct ==
    /\ ledger.step = "given"
    /\ ledger' = Merge(ledger, [step |-> "deducted",
                                result |-> deductCurrency(ledger.wallet, ledger.cost)])
    /\ UNCHANGED besideLedger

\* the cost is put back into the new wallet as copper
addBack ==
    /\ ledger.step = "deducted"
    /\ ledger.result # Null
    /\ ledger' = Merge(ledger, [step |-> "added",
                                back |-> Merge(ledger.result,
                                               [cp |-> ledger.result.cp + ledger.cost])])
    /\ UNCHANGED besideLedger

\* deductCurrency(back, 0)
rededuct ==
    /\ ledger.step = "added"
    /\ ledger' = Merge(ledger, [step |-> "rededucted",
                                again |-> deductCurrency(ledger.back, 0)])
    /\ UNCHANGED besideLedger

\* deductCurrency(wallet, 0)
deductZero ==
    /\ ledger.step = "given"
    /\ ledger' = Merge(ledger, [step |-> "zero", zero |-> deductCurrency(ledger.wallet, 0)])
    /\ UNCHANGED besideLedger

\* deductCurrency(deductCurrency(wallet, 0), 0)
deductZeroAgain ==
    /\ ledger.step = "zero"
    /\ ledger' = Merge(ledger, [step |-> "zeroAgain",
                                zeroAgain |-> deductCurrency(ledger.zero, 0)])
    /\ UNCHANGED besideLedger

NextLedger ==
    \/ deduct
    \/ addBack
    \/ rededuct
    \/ deductZero
    \/ deductZeroAgain

LedgerSpec == InitLedger /\ [][NextLedger]_vars

----------------------------------------------------------------------------
(* The parser of costs on its own: a value is given and parsed.  A text is  *)
(* put together from what stands before the amount, the amount, the blanks, *)
(* the denomination and what follows it                                     *)

\* the decimal digits of n, as String(n) writes them
RECURSIVE Numeral(_)
Numeral(n) ==
    IF n < 10 THEN <<Digits[n + 1]>> ELSE Numeral(n \div 10) \o <<Digits[(n % 10) + 1]>>

\* n = -1: no amount is written; pad: the amount starts with a 0
CostParts ==
    [pre : {<<>>, <<" ">>, <<"x">>, <<"-">>},
     n : (-1)..MaxAmount,
     pad : BOOLEAN,
     spaces : 0..MaxSpaces,
     unit : {<<"g", "p">>, <<"G", "P">>, <<"s", "p">>, <<"S", "P">>, <<"c", "p">>,
             <<"C", "p">>, <<"g">>, <<"p", "p">>, <<>>},
     suf : {<<>>, <<" ">>, <<"x">>}]

CostText(p) ==
    p.pre \o (IF p.n < 0 THEN <<>> ELSE (IF p.pad THEN <<"0">> ELSE <<>>) \o Numeral(p.n))
          \o [i \in 1..p.spaces |-> " "] \o p.unit \o p.suf

InitParse ==
    /\ Loaded([p \in {"p1", DmId} |-> InitDb[p]])
    /\ isDM = FALSE
    /\ opsLeft = 0
    /\ visitsLeft = 0
    /\ ledger \in {[step |-> "given", type |-> "string", costStr |-> CostText(p), parts |-> p] :
                        p \in CostParts}
                 \cup {[step |-> "given", type |-> t, costStr |-> <<>>, parts |-> Null] :
                        t \in {"undefined", "number", "object"}}
    /\ placement = Null

\* parseCostToCp(costStr); a value that is not a string gives 0 (line 19)
parseCost ==
    /\ ledger.step = "given"
    /\ ledger' = Merge(ledger, [step |-> "parsed",
                                result |-> IF ledger.type # "string" THEN 0
                                           ELSE parseCostToCp(ledger.costStr)])
    /\ UNCHANGED besideLedger

ParseSpec == InitParse /\ [][parseCost]_vars

----------------------------------------------------------------------------
(* The grid placement engine on its own: a grid, the items lying in it and *)
(* an item to place are given, and the first slot is looked for, as the    *)
(* handlers do before they place an item (src/unnamed/part_001, lines 595, *)
(* 770, 882, 1116 and 1337).                                               *)

Sides == 1..MaxSide

\* the rectangles that lie inside a grid of the given size
PlacedIn(gridWidth, gridHeight) ==
    {r \in [x : 0..(gridWidth - 1), y : 0..(gridHeight - 1), w : Sides, h : Sides] :
        r.x + r.w <= gridWidth /\ r.y + r.h <= gridHeight}

\* the subsets of a set that have at most k elements
RECURSIVE UpTo(_, _)
UpTo(set, k) ==
    IF k = 0 THEN {{}}
    ELSE LET fewer == UpTo(set, k - 1)
         IN  fewer \cup {t \cup {r} : t \in fewer, r \in set}

RECURSIVE Listed(_)
Listed(set) ==
    IF set = {} THEN <<>>
    ELSE LET r == CHOOSE r \in set : TRUE IN <<r>> \o Listed(set \ {r})

InitSlot ==
    /\ Loaded([p \in {"p1", DmId} |-> InitDb[p]])
    /\ isDM = FALSE
    /\ opsLeft = 0
    /\ visitsLeft = 0
    /\ ledger = Null
    /\ \E gw \in Sides, gh \in Sides, w \in Sides, h \in Sides :
         \E placed \in UpTo(PlacedIn(gw, gh), MaxPlaced) :
            /\ placement = [step |-> "given", gridWidth |-> gw, gridHeight |-> gh,
                            items |-> Listed(placed), item |-> [w |-> w, h |-> h]]

\* findFirstAvailableSlot(items, item, gridWidth, gridHeight)
findFirstSlot ==
    /\ placement.step = "given"
    /\ placement' = Merge(placement,
                          [step |-> "found",
                           slot |-> findFirstAvailableSlot(placement.items, placement.item,
                                                           placement.gridWidth,
                                                           placement.gridHeight)])
    /\ UNCHANGED <<db, inventories, pending, invDirty, contDirty, isDM, modal, lastToast,
                   nextId, opsLeft, lastOp, transferred, storeVars, tradeVars, ledger>>

SlotSpec == InitSlot /\ [][findFirstSlot]_vars

----------------------------------------------------------------------------
(* Trade handshake: TradeNotifications (src/unnamed/part_000) on the client *)
(* of every player, and the proposal of a trade (StartTrade, section 4.5)   *)

\* everything but the trades and the messages
besideTrades == <<db, inventories, pending, invDirty, contDirty, isDM, modal, nextId, opsLeft,
                  lastOp, transferred, storeVars, ledger, placement>>

\* the documents one player's query returns (lines 16-20)
TradesOf(u) ==
    {i \in DOMAIN tradeDb :
        tradeDb[i].campaignId = campaignId /\ u \in tradeDb[i].players}

\* a proposal: the record is created pending, under an id never used before
StartTrade ==
    /\ Cardinality(DOMAIN tradeDb \cup tradeLog.declined) < MaxTrades
    /\ \E playerA \in Players, playerB \in Players :
         /\ playerA # playerB
         /\ LET tradeId == Cardinality(DOMAIN tradeDb \cup tradeLog.declined) + 1
             IN  /\ tradeDb' = [i \in (DOMAIN tradeDb) \cup {tradeId} |->
                                  IF i = tradeId
                                  THEN [campaignId |-> campaignId, playerA |-> playerA,
                                        playerB |-> playerB, players |-> {playerA, playerB},
                                        status |-> "pending"]
                                  ELSE tradeDb[i]]
                 /\ tradeLog' = [tradeLog EXCEPT !.last = [name |-> "StartTrade",
                                                           user |-> playerA, id |-> tradeId]]
    /\ UNCHANGED <<tradeToasts, tradeKnown>>
    /\ UNCHANGED <<besideTrades, lastToast>>

\* the listener of player u (lines 27-60): every document added to the result
\* of its query that is pending and addressed to u is shown with its buttons
onTradesSnapshot ==
    /\ \E u \in Players :
         /\ TradesOf(u) # tradeKnown[u]
         /\ LET added == TradesOf(u) \ tradeKnown[u]
                 invited == {i \in added : tradeDb[i].status = "pending" /\ tradeDb[i].playerB = u}
             IN  /\ tradeToasts' = tradeToasts \cup
                                     {[user |-> u, tradeId |-> i, t |-> tradeLog.shown + 1] :
                                        i \in invited}
                 /\ tradeLog' = [tradeLog EXCEPT
                                   !.last = [name |-> "onTradesSnapshot", user |-> u],
                                   !.shown = IF invited = {} THEN @ ELSE @ + 1]
         /\ tradeKnown' = [tradeKnown EXCEPT ![u] = TradesOf(u)]
    /\ UNCHANGED tradeDb
    /\ UNCHANGED <<besideTrades, lastToast>>

\* the effect runs again for player u, whose inventories or profiles have
\* changed (lines 10-63): the listener is replaced by a new one
subscribeTrades ==
    /\ tradeLog.shown < MaxToasts
    /\ \E u \in Players :
         /\ tradeKnown[u] # {}
         /\ tradeKnown' = [tradeKnown EXCEPT ![u] = {}]
         /\ tradeLog' = [tradeLog EXCEPT !.last = [name |-> "subscribeTrades", user |-> u]]
    /\ UNCHANGED <<tradeDb, tradeToasts>>
    /\ UNCHANGED <<besideTrades, lastToast>>

\* an invitation leaves the screen after its duration (lines 54-56)
dismissToast ==
    /\ \E n \in tradeToasts :
         /\ tradeToasts' = tradeToasts \ {n}
         /\ tradeLog' = [tradeLog EXCEPT !.last = [name |-> "dismissToast", user |-> n.user]]
    /\ UNCHANGED <<tradeDb, tradeKnown>>
    /\ UNCHANGED <<besideTrades, lastToast>>

\* updateDoc(tradeDocRef, { status: 'active' }): rejected when the document
\* does not exist
handleAcceptResult(trades, tradeId) ==
    IF tradeId \in DOMAIN trades
    THEN [trades EXCEPT ![tradeId] = Merge(@, [status |-> "active"])]
    ELSE trades

\* deleteDoc(tradeDocRef) storing a final status in the document instead
handleDeclineStored(trades, tradeId) ==
    IF tradeId \in DOMAIN trades
    THEN [trades EXCEPT ![tradeId] = Merge(@, [status |-> "declined"])]
    ELSE trades

\* deleteDoc(tradeDocRef)
handleDeclineResult(trades, tradeId) ==
    [i \in (DOMAIN trades) \ {tradeId} |-> trades[i]]

\* the Accept button of an invitation (lines 71-77)
handleAccept ==
    /\ \E n \in tradeToasts :
         /\ tradeToasts' = tradeToasts \ {n}
         /\ tradeDb' = handleAcceptResult(tradeDb, n.tradeId)
         /\ tradeLog' = [tradeLog EXCEPT !.last = [name |-> "handleAccept", user |-> n.user,
                                                   id |-> n.tradeId]]
         /\ lastToast' = IF n.tradeId \in DOMAIN tradeDb
                          THEN <<"success: trade accepted">> ELSE <<>>
    /\ UNCHANGED tradeKnown
    /\ UNCHANGED besideTrades

\* the Decline button of an invitation (lines 84-89)
handleDecline ==
    /\ \E n \in tradeToasts :
         /\ tradeToasts' = tradeToasts \ {n}
         /\ tradeDb' = handleDeclineResult(tradeDb, n.tradeId)
         /\ tradeLog' = [tradeLog EXCEPT !.last = [name |-> "handleDecline", user |-> n.user,
                                                   id |-> n.tradeId],
                                         !.declined = @ \cup {n.tradeId}]
         /\ lastToast' = <<"error: trade declined">>
    /\ UNCHANGED tradeKnown
    /\ UNCHANGED besideTrades

NextTrade ==
    \/ StartTrade
    \/ onTradesSnapshot
    \/ subscribeTrades
    \/ dismissToast
    \/ handleAccept
    \/ handleDecline

TradeSpec == InitTeardown /\ [][NextTrade]_vars

----------------------------------------------------------------------------
(* Properties *)

\* the operations whose handler restores the local view in a catch block
RollbackOps == {"equip", "unequip", "move", "stack", "send", "add", "duplicate"}

\* C1 (Rollback): when the persistence of an equip, unequip, drag move, stack
\* merge, send, add or duplicate fails, the failure handler leaves the local
\* inventories equal to the state the operation started from.
C1_Rollback ==
    [][(pending # <<>> /\ Head(pending).op \in RollbackOps /\ lastOp'.name = "reject")
         => inventories' = Head(pending).pre]_vars

C1_Witness ==
    lastOp.name = "reject" /\ lastOp.op = "move" /\ lastOp.restored

\* a drag of a priced item out of a merchant's inventory onto another owner
\* whose wallet holds less than the price
Unaffordable(d, o) ==
    /\ IsMerchant(inventories, d.ownerId)
    /\ d.ownerId # o.ownerId
    /\ parseCostToCp(GetOr(d.item, "cost", <<>>)) > 0
    /\ walletToCp(GetOr(inventories[o.ownerId], "currency", ZeroWallet))
         < parseCostToCp(GetOr(d.item, "cost", <<>>))

\* C2 (Purchase with insufficient funds): a drag of an item with a parsed cost
\* above zero from a merchant to a different owner whose wallet is worth less
\* aborts with the affordability error: the local view is unchanged and no
\* write is issued.
C2_InsufficientFundsAbort ==
    [][\A d \in RenderedItems(inventories) :
         \A o \in RenderedItems(inventories) \cup Zones(inventories) :
           \A x \in DropCoords(o), y \in DropCoords(o) :
             (/\ Unaffordable(d, o)
              /\ modal = Null
              /\ Invoke(handleDragEndResult(inventories, isDM, GridRefs(inventories), d.item,
                                            d.ownerId, d.containerId, d.source, o, x, y),
                        "handleDragEnd", d.item.id, d.ownerId, o.ownerId))
             => (/\ inventories' = inventories
                 /\ pending' = pending
                 /\ lastToast' = <<"error: cannot afford">>)]_vars

\* C3 (Purchase without completion): when a purchase does not leave the item
\* with the buyer (no space, loot pile refused, item or container missing),
\* the buyer's wallet in the store stays as it was.
C3_NoChargeWithoutItem ==
    [][(/\ pending # <<>>
        /\ Head(pending).op = "pay"
        /\ ~Head(pending).landed
        /\ pending' = Tail(pending))
         => db'[Head(pending).to].doc.currency = db[Head(pending).to].doc.currency]_vars

\* C4 (Cross-owner transfer): the id of an item moved from one owner to
\* another is present in exactly one of the two inventories, in every store
\* state and, once no write is in flight any more, in the local view.
C4_TransferConserves ==
    transferred # Null =>
        /\ InInventory(DbView(db), transferred.from, transferred.id)
             # InInventory(DbView(db), transferred.to, transferred.id)
        /\ pending = <<>> =>
              (InInventory(inventories, transferred.from, transferred.id)
                 # InInventory(inventories, transferred.to, transferred.id))

\* C5 (One atomic write): every operation persists through exactly one
\* batched write holding every field it changes, the buyer's wallet included.
C5_OneWritePerOperation ==
    [][Len(pending') <= Len(pending) + 1]_vars

WalletOk(w) == w.gp >= 0 /\ w.sp >= 0 /\ w.cp >= 0

\* C6 (Wallets): in every reachable state the gp, sp and cp of every wallet,
\* in the store, in the local view and in every write in flight, are not
\* negative; a wallet edit with a negative field writes nothing.
C6_WalletsNonNegative ==
    /\ \A p \in DOMAIN db : Has(db[p].doc, "currency") => WalletOk(db[p].doc.currency)
    /\ \A p \in DOMAIN inventories :
         Has(inventories[p], "currency") => WalletOk(inventories[p].currency)
    /\ \A k \in 1..Len(pending) : \A j \in 1..Len(pending[k].writes) :
         Has(pending[k].writes[j].fields, "currency")
           => WalletOk(pending[k].writes[j].fields.currency)
    /\ (lastOp.name = "handleSave" /\ lastToast = <<"error: currency cannot be negative">>)
         => lastOp.issued = 0

C6_Witness ==
    /\ lastOp.name = "handleSave"
    /\ lastToast = <<"error: currency cannot be negative">>
    /\ lastOp.issued = 0
    /\ db["p1"].doc.currency # InitDb["p1"].doc.currency

\* every item of every grid lies inside the grid and overlaps no other
GridValid(inv) ==
    \A p \in DOMAIN inv : \A c \in DOMAIN inv[p].containers :
        LET g == inv[p].containers[c]
            items == GetOr(g, "gridItems", <<>>)
        IN  /\ \A k \in 1..Len(items) :
                  ~outOfBounds(items[k].x, items[k].y, items[k], g.gridWidth, g.gridHeight)
            /\ \A k, j \in 1..Len(items) :
                  k # j => ~onOtherItem(items[k].x, items[k].y, items[k], items[j])

\* C7 (Grid invariant): after drag moves and splits applied from a valid
\* state no two items of a grid overlap and all lie inside the grid, in the
\* store and in the local view.
C7_GridValid ==
    GridValid(DbView(db)) /\ GridValid(inventories)

Positioned(i) == Has(i, "x") /\ Has(i, "y")

Unpositioned(i) == ~Has(i, "x") /\ ~Has(i, "y")

PositionsOk(inv) ==
    \A p \in DOMAIN inv :
        /\ \A i \in Range(GetOr(inv[p], "trayItems", <<>>)) : Unpositioned(i)
        /\ \A i \in Range(GetOr(inv[p], "equippedItems", <<>>)) : Unpositioned(i)
        /\ \A c \in DOMAIN inv[p].containers :
             /\ \A i \in Range(GetOr(inv[p].containers[c], "gridItems", <<>>)) : Positioned(i)
             /\ \A i \in Range(GetOr(inv[p].containers[c], "trayItems", <<>>)) : Unpositioned(i)

\* C8 (Position invariant): an item has x and y exactly when it is in the
\* gridItems of a container; items of a tray or of the equipped list have
\* neither, also when they came there for lack of space.
C8_PositionIffGrid ==
    PositionsOk(DbView(db)) /\ PositionsOk(inventories)

\* every list of items of one inventory, one after the other
AllItems(inv, p) ==
    LET cs == SelectSeq(ContainerOrder, LAMBDA c : c \in DOMAIN inv[p].containers)
        RECURSIVE OfContainers(_)
        OfContainers(rest) ==
            IF rest = <<>> THEN <<>>
            ELSE GetOr(inv[p].containers[Head(rest)], "gridItems", <<>>)
                 \o GetOr(inv[p].containers[Head(rest)], "trayItems", <<>>)
                 \o OfContainers(Tail(rest))
    IN  GetOr(inv[p], "trayItems", <<>>) \o GetOr(inv[p], "equippedItems", <<>>)
        \o OfContainers(cs)

NoDuplicateIds(inv) ==
    \A p \in DOMAIN inv :
        \A k, j \in 1..Len(AllItems(inv, p)) :
            k # j => AllItems(inv, p)[k].id # AllItems(inv, p)[j].id

\* C9 (Identity invariant): no item id occurs more than once within one
\* inventory, in the store in every state and in the local view once no write
\* is in flight.
C9_UniqueIds ==
    /\ NoDuplicateIds(DbView(db))
    /\ pending = <<>> => NoDuplicateIds(inventories)

\* the operations of the mutation coordinator
MutationOps == RollbackOps \cup {"rotate", "split", "delete", "edit", "reveal"}

\* the local view holds what the update w writes
Reflects(inv, w) ==
    \A f \in DOMAIN w.fields :
        w.fields[f] = (IF w.c = "" THEN GetOr(inv[w.p], f, <<>>)
                       ELSE GetOr(inv[w.p].containers[w.c], f, <<>>))

\* C10 (Optimistic apply): every mutation operation, rotate, split, delete,
\* edit and reveal included, replaces the local inventories with its result
\* before its write is acknowledged.
C10_AppliedBeforeAck ==
    [][\A k \in (Len(pending) + 1)..Len(pending') :
         pending'[k].op \in MutationOps
           => \A j \in 1..Len(pending'[k].writes) : Reflects(inventories', pending'[k].writes[j])]_vars

\* C11 (Failures are surfaced): whatever operation a rejected write belongs
\* to, rotate, split, delete, edit and the wallet write of a purchase
\* included, its rejection shows a failure message and leaves the local
\* inventories equal to the state the operation started from.
C11_FailureSurfaced ==
    [][(pending # <<>> /\ lastOp'.name = "reject")
         => (/\ Head(pending).failToast # ""
             /\ lastToast' = <<Head(pending).failToast>>
             /\ inventories' = Head(pending).pre)]_vars

\* the subscriptions all belong to the campaign of the view and to its last fetch
SubsOfView == \A l \in subs : l.campaignId = campaignId /\ l.n = mounts

\* C12 (Subscription teardown): right after clearCampaign no subscription is
\* served, the three kinds of handles are gone, campaignData is null and
\* inventories is empty; while the view is left nothing is subscribed; and
\* every subscription served belongs to the campaign fetched last, so that
\* after a switch no listener of the campaign before remains.
C12_Teardown ==
    /\ lastOp.name = "clearCampaign" =>
          /\ subs = {}
          /\ campaignListener = Null /\ inventoriesListener = Null
          /\ containerListeners = EmptyObject
          /\ campaignData = Null
          /\ inventories = EmptyObject
    /\ campaignId = "" => subs = {}
    /\ SubsOfView

\* the view was switched to the other campaign and its listeners, those of
\* the containers included, are set up
C12_Witness ==
    /\ campaignId = OtherCampaign
    /\ mounts > 0
    /\ \E l \in subs : l.kind = "containers"
    /\ SubsOfView

\* C13 (Late rollback): a write issued before the view was left or switched
\* and rejected afterwards leaves the local inventories as they are.
C13_LateRollbackNoOp ==
    [][(pending # <<>> /\ lastOp'.name = "reject" /\ Head(pending).mount # mounts)
         => inventories' = inventories]_vars

\* the local view holds everything the request q writes
ReflectsAll(inv, q) ==
    \A j \in 1..Len(q.writes) :
        /\ q.writes[j].p \in DOMAIN inv
        /\ Reflects(inv, q.writes[j])

\* C14 (Stale rollback): when the write of an operation is rejected while a
\* later operation's write is in flight and the local view holds the later
\* operation's result, the local view still holds it after the rejection.
C14_StaleRollbackIgnored ==
    [][(/\ Len(pending) >= 2
        /\ lastOp'.name = "reject"
        /\ Head(pending).mount = mounts
        /\ ReflectsAll(inventories, pending[2]))
         => ReflectsAll(inventories', pending[2])]_vars

\* nothing is in flight: no write awaits its answer, no change its notification
Quiescent ==
    /\ pending = <<>>
    /\ ~invDirty
    /\ \A p \in DOMAIN contDirty : ~contDirty[p]
    /\ modal = Null

\* C15 (Eventual consistency): once every acknowledgment, rejection and
\* notification has been delivered, the local inventories of a subscribed
\* client equal the store: every field of every inventory document and of
\* every container document.
C15_EventuallyConsistent ==
    (Quiescent /\ campaignId = HomeCampaign /\ Listening("inventories", ""))
      => \A p \in DOMAIN db :
            /\ p \in DOMAIN inventories
            /\ \A f \in DOMAIN db[p].doc : Has(inventories[p], f) /\ inventories[p][f] = db[p].doc[f]
            /\ Listening("containers", p) =>
                  \A c \in DOMAIN db[p].containers :
                      /\ HasContainer(inventories, p, c)
                      /\ \A f \in DOMAIN db[p].containers[c] :
                            /\ Has(inventories[p].containers[c], f)
                            /\ inventories[p].containers[c][f] = db[p].containers[c][f]

\* C16 (Trade handshake guard): a trade goes from pending to active only by
\* the accept action of its playerB; an invitation with its two buttons is
\* shown only to the trade's playerB; and an accept or decline that changes
\* the trades acts on a trade that is pending when it is applied.
C16_HandshakeGuard ==
    [][/\ \A i \in (DOMAIN tradeDb) \cap (DOMAIN tradeDb') :
            (tradeDb[i].status = "pending" /\ tradeDb'[i].status = "active")
              => /\ tradeLog'.last.name = "handleAccept"
                 /\ tradeLog'.last.id = i
                 /\ tradeLog'.last.user = tradeDb[i].playerB
       /\ \A n \in tradeToasts' \ tradeToasts : tradeDb[n.tradeId].playerB = n.user
       /\ (tradeLog'.last.name \in {"handleAccept", "handleDecline"} /\ tradeDb' # tradeDb)
            => /\ tradeLog'.last.id \in DOMAIN tradeDb
               /\ tradeDb[tradeLog'.last.id].status = "pending"]_vars

\* C17 (Trade lifecycle): a stored trade is pending or active, never
\* declined; a trade never goes from active back to pending; a declined
\* trade is deleted and never stored again.
C17_Lifecycle ==
    [][/\ \A i \in DOMAIN tradeDb' : tradeDb'[i].status \in {"pending", "active"}
       /\ \A i \in (DOMAIN tradeDb) \cap (DOMAIN tradeDb') :
            tradeDb[i].status = "active" => tradeDb'[i].status = "active"
       /\ tradeLog'.declined \cap DOMAIN tradeDb' = {}]_vars

\* one trade was declined while another one, accepted, is active
C17_Witness ==
    /\ tradeLog.declined # {}
    /\ \E i \in DOMAIN tradeDb : tradeDb[i].status = "active"

\* the value of a wallet in copper, as the claims define it
toCopper(w) == w.gp * 100 + w.sp * 10 + w.cp

\* C18 (deduct): for a wallet of non-negative integers and a non-negative
\* cost the result is null exactly when the wallet is worth less than the
\* cost; otherwise it is worth the difference, with gp = remainder div 100,
\* sp = (remainder mod 100) div 10 and cp = remainder mod 10, so that sp and
\* cp lie in 0..9; the wallet given is left as it was.
C18_Deduct ==
    [][(ledger.step = "given" /\ ledger'.step = "deducted")
         => LET total == toCopper(ledger.wallet)
                remainder == total - ledger.cost
                r == ledger'.result
            IN  /\ (r = Null) <=> (total < ledger.cost)
                /\ r # Null =>
                      /\ toCopper(r) = remainder
                      /\ r.gp = remainder \div 100
                      /\ r.sp = (remainder % 100) \div 10
                      /\ r.cp = remainder % 10
                      /\ r.sp \in 0..9 /\ r.cp \in 0..9
                /\ ledger'.wallet = ledger.wallet]_vars

\* change was made from a gold piece, and a wallet short of the cost was refused
C18_Witness ==
    /\ ledger # Null
    /\ ledger.step = "deducted"
    /\ ledger.wallet = [gp |-> 1, sp |-> 0, cp |-> 0]
    /\ ledger.cost = 5
    /\ ledger.result = [gp |-> 0, sp |-> 9, cp |-> 5]

\* C19 (Ledger examples), as stated: toCopper({gp:1,sp:5,cp:3}) is 153,
\* deduct({gp:0,sp:1,cp:5}, 20) is {gp:0,sp:0,cp:0} and
\* deduct({gp:0,sp:0,cp:5}, 20) is null.
C19_ExamplesAsStated ==
    ledger # Null =>
        /\ ledger.wallet = [gp |-> 1, sp |-> 5, cp |-> 3] => walletToCp(ledger.wallet) = 153
        /\ (/\ ledger.step = "deducted"
            /\ ledger.wallet = [gp |-> 0, sp |-> 1, cp |-> 5]
            /\ ledger.cost = 20) => ledger.result = [gp |-> 0, sp |-> 0, cp |-> 0]
        /\ (/\ ledger.step = "deducted"
            /\ ledger.wallet = [gp |-> 0, sp |-> 0, cp |-> 5]
            /\ ledger.cost = 20) => ledger.result = Null

\* C19 amended: toCopper({gp:1,sp:5,cp:3}) is 153; the wallet
\* {gp:0,sp:1,cp:5} is worth 15, so deducting 20 from it gives null and
\* deducting 15, its exact funds, gives {gp:0,sp:0,cp:0};
\* deduct({gp:0,sp:0,cp:5}, 20) is null.
C19_Examples ==
    ledger # Null =>
        /\ ledger.wallet = [gp |-> 1, sp |-> 5, cp |-> 3] => walletToCp(ledger.wallet) = 153
        /\ (/\ ledger.step = "deducted"
            /\ ledger.wallet = [gp |-> 0, sp |-> 1, cp |-> 5]
            /\ ledger.cost = 20) => ledger.result = Null
        /\ (/\ ledger.step = "deducted"
            /\ ledger.wallet = [gp |-> 0, sp |-> 1, cp |-> 5]
            /\ ledger.cost = 15) => ledger.result = [gp |-> 0, sp |-> 0, cp |-> 0]
        /\ (/\ ledger.step = "deducted"
            /\ ledger.wallet = [gp |-> 0, sp |-> 0, cp |-> 5]
            /\ ledger.cost = 20) => ledger.result = Null

\* the exact funds of the example were deducted
C19_Witness ==
    /\ ledger # Null
    /\ ledger.step = "deducted"
    /\ ledger.wallet = [gp |-> 0, sp |-> 1, cp |-> 5]
    /\ ledger.cost = 15
    /\ ledger.result = [gp |-> 0, sp |-> 0, cp |-> 0]

\* C20 (Deduct round trip): when the wallet covers the cost, deducting it,
\* adding it back in copper and deducting 0 gives a wallet worth what the
\* first one was worth; deducting 0 keeps the worth of a wallet, and
\* deducting 0 from the result gives the same result again.
C20_RoundTrip ==
    ledger # Null =>
        /\ (ledger.step = "deducted" /\ toCopper(ledger.wallet) >= ledger.cost)
              => ledger.result # Null
        /\ ledger.step = "rededucted"
              => ledger.again # Null /\ toCopper(ledger.again) = toCopper(ledger.wallet)
        /\ ledger.step \in {"zero", "zeroAgain"}
              => ledger.zero # Null /\ toCopper(ledger.zero) = toCopper(ledger.wallet)
        /\ ledger.step = "zeroAgain" => ledger.zeroAgain = ledger.zero

\* a round trip through a wallet that had to be changed
C20_Witness ==
    /\ ledger # Null
    /\ ledger.step = "rededucted"
    /\ ledger.wallet = [gp |-> 1, sp |-> 11, cp |-> 3]
    /\ ledger.cost = 25
    /\ ledger.again = [gp |-> 2, sp |-> 1, cp |-> 3]

\* the text is an amount followed by a denomination, blanks allowed around
\* and between them
ExactCost(p) ==
    /\ p.pre \in {<<>>, <<" ">>} /\ p.suf \in {<<>>, <<" ">>}
    /\ p.n >= 0
    /\ Len(p.unit) = 2 /\ p.unit[1] \in {"g", "G", "s", "S", "c", "C"} /\ p.unit[2] \in {"p", "P"}

\* the text holds no amount followed by a denomination anywhere
NoCost(p) ==
    \/ p.n < 0
    \/ ~(Len(p.unit) = 2 /\ p.unit[1] \in {"g", "G", "s", "S", "c", "C"} /\ p.unit[2] \in {"p", "P"})

MayMerge(S, T) ==
    /\ Has(T, "id") /\ S.id # T.id
    /\ S.stackable /\ T.stackable
    /\ S.name = T.name /\ S.type = T.type

RoomIn(T) == (IF Has(T, "maxStack") THEN T.maxStack ELSE 20) - T.quantity

\* the quantity the inventory of p holds under an id, 0 when it holds none
QuantityOf(inv, p, id) ==
    LET RECURSIVE Sum(_)
        Sum(items) == IF items = <<>> THEN 0
                      ELSE (IF Head(items).id = id THEN Head(items).quantity ELSE 0)
                           + Sum(Tail(items))
    IN  Sum(AllItems(inv, p))

\* the step is the drag of the rendered item d dropped on o at (x, y)
Dragged(d, o, x, y) ==
    /\ modal = Null
    /\ Invoke(handleDragEndResult(inventories, isDM, GridRefs(inventories), d.item,
                                  d.ownerId, d.containerId, d.source, o, x, y),
              "handleDragEnd", d.item.id, d.ownerId, o.ownerId)

\* C22 (Stack merge amount): dropping a stack S on a stack T that has room
\* moves exactly min(S.quantity, T.maxStack - T.quantity) units (maxStack 20
\* when T has none): T then holds that much more and no more than maxStack,
\* and the two quantities add up to what they did before, whether S was
\* dragged from a grid, from the floor or from the equipped list.
C22_MergeAmount ==
    [][\A d \in RenderedItems(inventories) : \A o \in RenderedItems(inventories) :
         \A x \in DropCoords(o), y \in DropCoords(o) :
           (MayMerge(d.item, o.item) /\ RoomIn(o.item) > 0 /\ Dragged(d, o, x, y))
             => LET moved == Min(d.item.quantity, RoomIn(o.item))
                    S == QuantityOf(inventories', d.ownerId, d.item.id)
                    T == QuantityOf(inventories', o.ownerId, o.item.id)
                IN  /\ T = o.item.quantity + moved
                    /\ T <= o.item.quantity + RoomIn(o.item)
                    /\ S + T = d.item.quantity + o.item.quantity]_vars

\* C23 (Full stack): when the target stack has no room the merge fails with
\* the stack-full error, the local view and the store stay as they are and no
\* write is issued.
C23_FullStack ==
    [][\A d \in RenderedItems(inventories) : \A o \in RenderedItems(inventories) :
         \A x \in DropCoords(o), y \in DropCoords(o) :
           (MayMerge(d.item, o.item) /\ RoomIn(o.item) <= 0 /\ Dragged(d, o, x, y))
             => /\ lastToast' = <<"error: stack full">>
                /\ inventories' = inventories
                /\ db' = db
                /\ pending' = pending]_vars

\* a stack was dropped on the full stack of the backpack
C23_Witness ==
    /\ lastOp.name = "handleDragEnd"
    /\ lastOp.issued = 0
    /\ lastToast = <<"error: stack full">>
    /\ QuantityOf(inventories, "p1", 3) = 5

\* the quantities the items of an id have, in any inventory
QuantitiesOf(inv, id) ==
    UNION {{AllItems(inv, p)[k].quantity :
               k \in {j \in 1..Len(AllItems(inv, p)) : AllItems(inv, p)[j].id = id}} :
           p \in DOMAIN inv}

\* C24 (Merge eligibility): a drop of S on T is a stack merge only if S and T
\* are different instances, both stackable and of the same name and type; in
\* every other case no quantity passes between them.
C24_MergeEligibility ==
    [][\A d \in RenderedItems(inventories) :
         \A o \in RenderedItems(inventories) \cup Zones(inventories) :
           \A x \in DropCoords(o), y \in DropCoords(o) :
             (~MayMerge(d.item, o.item) /\ Dragged(d, o, x, y))
               => \A i \in {d.item.id} \cup (IF Has(o.item, "id") THEN {o.item.id} ELSE {}) :
                     QuantitiesOf(inventories', i) \subseteq QuantitiesOf(inventories, i)]_vars

\* the lists of items of the inventory of p
Locs(inv, p) ==
    {Loc("", "trayItems"), Loc("", "equippedItems")}
    \cup {Loc(c, f) : c \in DOMAIN inv[p].containers, f \in {"gridItems", "trayItems"}}

\* a list after the merge of S into T: S gone or reduced where it was, T
\* grown where it was, every other item as before
MergedList(list, S, T, moved) ==
    LET changed == [k \in 1..Len(list) |->
                       IF list[k].id = S.id THEN Merge(list[k], [quantity |-> S.quantity - moved])
                       ELSE IF list[k].id = T.id
                       THEN Merge(list[k], [quantity |-> T.quantity + moved])
                       ELSE list[k]]
    IN  SelectSeq(changed, LAMBDA i : i.id # S.id \/ i.quantity > 0)

\* C25 (Merge source outcome): after a successful merge the source is gone
\* from its owner's inventory when nothing of it remains, and otherwise
\* stays in the same list at the same position with its quantity reduced by
\* what was moved; every item other than source and target is unchanged.
C25_MergeSource ==
    [][\A d \in RenderedItems(inventories) : \A o \in RenderedItems(inventories) :
         \A x \in DropCoords(o), y \in DropCoords(o) :
           (/\ MayMerge(d.item, o.item) /\ RoomIn(o.item) > 0
            /\ Dragged(d, o, x, y)
            /\ lastOp'.issued = 1)
             => LET moved == Min(d.item.quantity, RoomIn(o.item))
                IN  /\ d.item.quantity - moved <= 0
                          => ~InInventory(inventories', d.ownerId, d.item.id)
                    /\ \A p \in DOMAIN inventories : \A loc \in Locs(inventories, p) :
                          ListExists(inventories, p, loc) =>
                            /\ ListExists(inventories', p, loc)
                            /\ GetList(inventories', p, loc)
                                 = MergedList(GetList(inventories, p, loc), d.item, o.item, moved)]_vars

\* the step is the submission of the split dialog with this amount
SplitSubmitted(amount) ==
    /\ modal # Null /\ modal.kind = "split"
    /\ LET r == handleSplitStackResult(inventories, modal, amount, nextId)
       IN  /\ inventories' = r.inv
           /\ pending' = pending \o [k \in 1..Len(r.reqs) |-> Issued(r, r.reqs[k])]
           /\ lastOp' = [name |-> "handleSplitStack", issued |-> Len(r.reqs)]

\* the items a request writes, each with the owner, the container and the
\* list it is written to
Written(q) ==
    UNION {{[item |-> q.writes[k].fields[f][j], p |-> q.writes[k].p, c |-> q.writes[k].c, f |-> f] :
               j \in 1..Len(GetOr(q.writes[k].fields, f, <<>>))} :
           k \in 1..Len(q.writes), f \in {"gridItems", "trayItems"}}

\* C26 (Split): for a stackable item of quantity q, wherever the Split action
\* is offered, and an amount with 0 < amount < q, the result holds the source
\* with q - amount and one new item with a fresh id and the amount, placed in
\* a free slot of the same container or, when there is none, in that
\* container's unplaced list; for amount <= 0 or amount >= q nothing changes.
C26_Split ==
    [][\A amount \in 0..(IF modal # Null THEN modal.item.quantity ELSE 0) :
         SplitSubmitted(amount) =>
           IF amount <= 0 \/ amount >= modal.item.quantity
           THEN inventories' = inventories /\ pending' = pending
           ELSE /\ Len(pending') = Len(pending) + 1
                /\ LET w == Written(pending'[Len(pending')])
                       c == inventories[modal.playerId].containers[modal.containerId]
                       old == {i \in w : i.item.id = modal.item.id}
                       new == {i \in w : i.item.id = nextId}
                       others(n) == {i.item : i \in {j \in w : j.f = "gridItems" /\ j # n}}
                   IN  /\ \A i \in w : i.c = modal.containerId
                       /\ old # {} /\ \A i \in old : i.item.quantity = modal.item.quantity - amount
                       /\ Cardinality(new) = 1
                       /\ ~InInventory(inventories, modal.playerId, nextId)
                       /\ \A n \in new :
                            /\ n.item.quantity = amount
                            /\ n.f = "gridItems" =>
                                  /\ ~outOfBounds(n.item.x, n.item.y, n.item, c.gridWidth, c.gridHeight)
                                  /\ \A i \in others(n) : ~onOtherItem(n.item.x, n.item.y, n.item, i)
                            /\ n.f = "trayItems" =>
                                  \A x \in 0..(c.gridWidth - 1), y \in 0..(c.gridHeight - 1) :
                                     \/ outOfBounds(x, y, n.item, c.gridWidth, c.gridHeight)
                                     \/ \E i \in others(n) : onOtherItem(x, y, n.item, i)]_vars

\* N was split off T: it has a new id and is T in everything but id,
\* quantity and position
SplitOff(N, T) ==
    /\ Has(T, "id") /\ N.id >= 100 /\ T.id < 100
    /\ Omit(N, {"id", "quantity", "x", "y"}) = Omit(T, {"id", "quantity", "x", "y"})

\* C27 (Split then re-merge): after an amount was split off a stack of
\* quantity q (q <= maxStack), dropping the new item on the rest of the stack,
\* both lying in the grid where the split left them, gives one stack of
\* quantity q and removes the new item.
C27_SplitThenMerge ==
    [][\A d \in RenderedItems(inventories) : \A o \in RenderedItems(inventories) :
         \A x \in DropCoords(o), y \in DropCoords(o) :
           (/\ SplitOff(d.item, o.item)
            /\ d.source = "grid" /\ o.source = "grid" /\ d.containerId = o.containerId
            /\ d.item.quantity <= RoomIn(o.item)
            /\ Dragged(d, o, x, y))
             => /\ QuantityOf(inventories', o.ownerId, o.item.id)
                     = o.item.quantity + d.item.quantity
                /\ ~InInventory(inventories', d.ownerId, d.item.id)
                /\ lastOp'.issued = 1]_vars

\* the item split off the stack of 18 is in the store and was merged back
C27_Witness ==
    /\ lastOp.name = "handleDragEnd"
    /\ lastOp.issued = 1
    /\ InInventory(DbView(db), "p1", 100)
    /\ ~InInventory(inventories, "p1", 100)
    /\ QuantityOf(DbView(db), "p1", 2) < 18
    /\ QuantityOf(inventories, "p1", 2) = 18

\* C29 (No-space recovery): when a rotate, an edit, a split or an unequip
\* finds no place for the item in a grid, the operation still completes and
\* the item goes to the owner's floor list (the trayItems of the inventory),
\* in no grid: what such an operation writes puts no item that was not
\* there before into the unplaced list of a container of a character.
C29_NoSpaceToFloor ==
    [][\A k \in (Len(pending) + 1)..Len(pending') :
         pending'[k].op \in {"rotate", "edit", "split", "unequip"}
           => \A i \in Written(pending'[k]) :
                 \/ i.f = "gridItems"
                 \/ i.c = ""
                 \/ IsDMName(inventories, i.p)
                 \/ HasId(GetOr(inventories[i.p].containers[i.c], "trayItems", <<>>),
                          i.item.id)]_vars

\* C28: the slot found for an item lies inside the grid, overlaps no item of
\* the grid, and no other such position comes before it row by row (smaller
\* y, then smaller x); no slot is found only when no position of the grid
\* is in bounds and free.  An item that fills an empty grid goes to (0,0);
\* in a grid of 2x2 with a 1x1 item at (0,0), a 1x1 item goes to (1,0).
CellsOf(x, y, w, h) == (x..(x + w - 1)) \X (y..(y + h - 1))

FitsAt(p, x, y) ==
    /\ CellsOf(x, y, p.item.w, p.item.h)
          \subseteq (0..(p.gridWidth - 1)) \X (0..(p.gridHeight - 1))
    /\ \A k \in 1..Len(p.items) :
          CellsOf(x, y, p.item.w, p.item.h)
            \cap CellsOf(p.items[k].x, p.items[k].y, p.items[k].w, p.items[k].h) = {}

C28_FirstSlot ==
    (placement # Null /\ placement.step = "found") =>
        LET p == placement
            fits == {c \in (0..(p.gridWidth - 1)) \X (0..(p.gridHeight - 1)) :
                       FitsAt(p, c[1], c[2])}
        IN  /\ p.slot = Null <=> fits = {}
            /\ p.slot # Null =>
                  /\ <<p.slot.x, p.slot.y>> \in fits
                  /\ \A c \in fits : p.slot.y < c[2] \/ (p.slot.y = c[2] /\ p.slot.x <= c[1])
            /\ (p.items = <<>> /\ p.item.w = p.gridWidth /\ p.item.h = p.gridHeight)
                  => p.slot = [x |-> 0, y |-> 0]
            /\ (/\ p.gridWidth = 2 /\ p.gridHeight = 2
                /\ p.items = <<[x |-> 0, y |-> 0, w |-> 1, h |-> 1]>>
                /\ p.item = [w |-> 1, h |-> 1])
                  => p.slot = [x |-> 1, y |-> 0]

C28_Witness ==
    /\ placement # Null /\ placement.step = "found"
    /\ placement.gridWidth = 2 /\ placement.gridHeight = 2
    /\ placement.items = <<[x |-> 0, y |-> 0, w |-> 1, h |-> 1]>>
    /\ placement.item = [w |-> 1, h |-> 1]
    /\ placement.slot = [x |-> 1, y |-> 0]

EquipCalled(d, source, containerId) ==
    /\ modal = Null
    /\ Invoke(handleEquipItemResult(inventories, d.item, d.ownerId, source, containerId),
              "handleEquipItem", d.item.id, d.ownerId, d.ownerId)

NamedList(inv, p, source, containerId) ==
    IF source # "grid" THEN GetOr(inv[p], "trayItems", <<>>)
    ELSE IF HasContainer(inv, p, containerId)
    THEN GetOr(inv[p].containers[containerId], "gridItems", <<>>)
    ELSE <<>>

\* the documents and fields a request writes, with the values written
Covered(q) ==
    UNION {{[p |-> q.writes[k].p, c |-> q.writes[k].c, f |-> f, v |-> q.writes[k].fields[f]] :
               f \in DOMAIN q.writes[k].fields} : k \in 1..Len(q.writes)}

\* C30 (Equip): when the item is in the grid or floor list the call names, it
\* leaves that list and is appended, without x and y, to the owner's equipped
\* list, and one request writes the source list and the equipped list; when
\* it is not there, an error is shown and neither the local state nor the
\* store changes and nothing is written.
C30_Equip ==
    [][\A d \in RenderedItems(inventories) :
         \A source \in {"grid", "tray"} :
           \A containerId \in GridsOf(inventories, d.ownerId) \cup {"tray"} :
             EquipCalled(d, source, containerId) =>
               LET p == d.ownerId
                   list == NamedList(inventories, p, source, containerId)
                   after == NamedList(inventories', p, source, containerId)
                   worn == GetOr(inventories[p], "equippedItems", <<>>)
                   wornAfter == GetOr(inventories'[p], "equippedItems", <<>>)
               IN  IF HasId(list, d.item.id)
                   THEN /\ after = SelectSeq(list, LAMBDA i : i.id # d.item.id)
                        /\ Len(wornAfter) = Len(worn) + 1
                        /\ SubSeq(wornAfter, 1, Len(worn)) = worn
                        /\ LET last == wornAfter[Len(wornAfter)]
                           IN  /\ DOMAIN last = (DOMAIN d.item) \ {"x", "y"}
                               /\ \A f \in DOMAIN last : last[f] = d.item[f]
                        /\ Len(pending') = Len(pending) + 1
                        /\ Covered(pending'[Len(pending')])
                             = {[p |-> p, c |-> IF source = "grid" THEN containerId ELSE "",
                                 f |-> IF source = "grid" THEN "gridItems" ELSE "trayItems",
                                 v |-> after],
                                [p |-> p, c |-> "", f |-> "equippedItems", v |-> wornAfter]}
                   ELSE /\ inventories' = inventories
                        /\ pending' = pending
                        /\ db' = db
                        /\ lastToast' = <<"error: item to equip not found">>]_vars

\* an item of the backpack was equipped and lost its x and y, and a later call
\* that named a list without its item failed
C30_Witness ==
    /\ lastOp.name = "handleEquipItem" /\ lastOp.issued = 0
    /\ lastToast = <<"error: item to equip not found">>
    /\ \E k \in 1..Len(inventories["p1"].equippedItems) :
          /\ inventories["p1"].equippedItems[k].id = 2
          /\ ~Has(inventories["p1"].equippedItems[k], "x")
    /\ ~HasId(inventories["p1"].containers["backpack"].gridItems, 2)

UnequipCalled(d) ==
    /\ modal = Null
    /\ Invoke(handleUnequipItemResult(inventories, d.item, d.ownerId),
              "handleUnequipItem", d.item.id, d.ownerId, d.ownerId)

\* the places of an inventory where an item with the id lies, one for each
\* occurrence
PlacesOf(inv, p, id) ==
    UNION {{<<"", f, k>> : k \in {j \in 1..Len(GetOr(inv[p], f, <<>>)) : inv[p][f][j].id = id}} :
           f \in {"trayItems", "equippedItems"}}
    \cup UNION {UNION {{<<c, f, k>> :
                          k \in {j \in 1..Len(GetOr(inv[p].containers[c], f, <<>>)) :
                                    inv[p].containers[c][f][j].id = id}} :
                       f \in {"gridItems", "trayItems"}} :
                c \in (IF Has(inv[p], "containers") THEN DOMAIN inv[p].containers ELSE {})}

\* the item can lie at (x, y) of the container: inside the grid and on no
\* other item
FreeAt(container, item, x, y) ==
    /\ CellsOf(x, y, item.w, item.h)
          \subseteq (0..(container.gridWidth - 1)) \X (0..(container.gridHeight - 1))
    /\ \A k \in 1..Len(container.gridItems) :
          CellsOf(x, y, item.w, item.h)
            \cap CellsOf(container.gridItems[k].x, container.gridItems[k].y,
                         container.gridItems[k].w, container.gridItems[k].h) = {}

HasRoom(container, item) ==
    \E x \in 0..(container.gridWidth - 1), y \in 0..(container.gridHeight - 1) :
        FreeAt(container, item, x, y)

\* C31 (Unequip): an item of the equipped list (lying nowhere else) leaves
\* that list and is placed at the first free slot of the first container, in
\* the order of the owner's containers, that has one; only when no container
\* has a free slot is it appended to the floor list; afterwards it occurs in
\* exactly one place; an item that is not in the equipped list changes nothing.
C31_Unequip ==
    [][\A d \in RenderedItems(inventories) :
         UnequipCalled(d) =>
           LET p == d.ownerId
               id == d.item.id
               worn == GetOr(inventories[p], "equippedItems", <<>>)
               cs == ContainerIds(inventories, p)
               roomy == {k \in 1..Len(cs) : HasRoom(inventories[p].containers[cs[k]], d.item)}
               after == PlacesOf(inventories', p, id)
           IN  IF ~HasId(worn, id)
               THEN inventories' = inventories /\ pending' = pending /\ db' = db
               ELSE PlacesOf(inventories, p, id) = {<<"", "equippedItems", FindIndex(worn, id)>>}
                    => /\ Cardinality(after) = 1
                       /\ inventories'[p].equippedItems = SelectSeq(worn, LAMBDA i : i.id # id)
                       /\ IF roomy = {}
                          THEN after = {<<"", "trayItems", Len(inventories'[p].trayItems)>>}
                          ELSE LET c == cs[CHOOSE k \in roomy : \A j \in roomy : k <= j]
                                   grid == inventories'[p].containers[c].gridItems
                                   placed == grid[Len(grid)]
                               IN  /\ after = {<<c, "gridItems", Len(grid)>>}
                                   /\ FreeAt(inventories[p].containers[c], d.item,
                                             placed.x, placed.y)
                                   /\ \A x \in 0..(inventories[p].containers[c].gridWidth - 1),
                                         y \in 0..(inventories[p].containers[c].gridHeight - 1) :
                                         FreeAt(inventories[p].containers[c], d.item, x, y)
                                           => placed.y < y \/ (placed.y = y /\ placed.x <= x)]_vars

\* the ring went to the pouch, the second container, because the backpack
\* was full, and then the shield went to the floor
C31_Witness ==
    /\ lastOp.name = "handleUnequipItem" /\ lastOp.issued = 1
    /\ HasId(inventories["p1"].containers["pouch"].gridItems, 10)
    /\ HasId(inventories["p1"].trayItems, 11)
    /\ inventories["p1"].equippedItems = <<>>

\* a drag of a priced item out of a merchant's inventory onto another owner
\* whose wallet, as the page knows it, covers the price
Affordable(d, o) ==
    /\ IsMerchant(inventories, d.ownerId)
    /\ d.ownerId # o.ownerId
    /\ parseCostToCp(GetOr(d.item, "cost", <<>>)) > 0
    /\ walletToCp(GetOr(inventories[o.ownerId], "currency", ZeroWallet))
         >= parseCostToCp(GetOr(d.item, "cost", <<>>))

\* the requests a step has issued
Issuing == {pending'[k] : k \in (Len(pending) + 1)..Len(pending')}

\* C32 (Merchant stock): a purchase that leaves the item with the buyer
\* writes the buyer's wallet reduced by the cost, leaves the merchant's
\* inventory as it was and writes nothing on the merchant's side.
C32_MerchantStockKept ==
    [][\A d \in RenderedItems(inventories) :
         \A o \in RenderedItems(inventories) \cup Zones(inventories) :
           \A x \in DropCoords(o), y \in DropCoords(o) :
             (/\ Affordable(d, o)
              /\ Dragged(d, o, x, y)
              /\ InInventory(inventories', o.ownerId, d.item.id))
             => /\ \E q \in Issuing :
                      /\ q.op = "pay"
                      /\ walletToCp(q.writes[1].fields.currency)
                           = walletToCp(GetOr(inventories[o.ownerId], "currency", ZeroWallet))
                               - parseCostToCp(GetOr(d.item, "cost", <<>>))
                /\ inventories'[d.ownerId] = inventories[d.ownerId]
                /\ \A q \in Issuing : \A k \in 1..Len(q.writes) : q.writes[k].p # d.ownerId]_vars

\* the total quantity the inventory of p holds, over all its items
Holding(inv, p) ==
    LET RECURSIVE Sum(_)
        Sum(items) == IF items = <<>> THEN 0 ELSE Head(items).quantity + Sum(Tail(items))
    IN  Sum(AllItems(inv, p))

\* C33 (Purchases are always charged): whenever a drag out of a merchant's
\* inventory onto a different owner brings the item, or any of its quantity
\* (a drop on a stack included), into that owner's inventory, a cost above
\* zero is taken from that owner's wallet, exactly, in copper; with a cost of
\* zero the wallet is not written.
C33_PurchasesCharged ==
    [][\A d \in RenderedItems(inventories) :
         \A o \in RenderedItems(inventories) \cup Zones(inventories) :
           \A x \in DropCoords(o), y \in DropCoords(o) :
             (/\ IsMerchant(inventories, d.ownerId)
              /\ d.ownerId # o.ownerId
              /\ Dragged(d, o, x, y)
              /\ Holding(inventories', o.ownerId) > Holding(inventories, o.ownerId))
             => LET cost == parseCostToCp(GetOr(d.item, "cost", <<>>))
                    paid == {q \in Issuing : \E k \in 1..Len(q.writes) :
                                                Has(q.writes[k].fields, "currency")}
                IN  IF cost = 0 THEN paid = {}
                    ELSE \E q \in paid :
                           /\ q.writes[1].p = o.ownerId
                           /\ walletToCp(q.writes[1].fields.currency)
                                = walletToCp(GetOr(inventories[o.ownerId], "currency", ZeroWallet))
                                    - cost]_vars

DeleteCalled(d) ==
    /\ modal = Null
    /\ canEdit(d.ownerId)
    /\ Invoke(handleDeleteItemResult(inventories, d.item, d.ownerId, d.source, d.containerId),
              "handleDeleteItem", d.item.id, d.ownerId, d.ownerId)

\* the document and the field that hold the list a rendered item lies in
ListOf(d) ==
    IF d.source = "equipped" THEN Loc("", "equippedItems")
    ELSE IF d.source = "grid" THEN Loc(d.containerId, "gridItems")
    ELSE IF d.containerId = "tray" THEN Loc("", "trayItems")
    ELSE Loc(d.containerId, "trayItems")

\* C34 (Delete): Delete Item on an item of a container grid, a container
\* tray, the floor list or the equipped list issues one write that holds the
\* item's list without the item and nothing else, so that exactly that item
\* leaves the stored inventory; success is announced only with such a write.
C34_Delete ==
    [][\A d \in RenderedItems(inventories) :
         DeleteCalled(d) =>
           /\ Cardinality(Issuing) = 1
           /\ \A q \in Issuing :
                 /\ Covered(q) = {[p |-> d.ownerId, c |-> ListOf(d).c, f |-> ListOf(d).f,
                                   v |-> SelectSeq(GetList(inventories, d.ownerId, ListOf(d)),
                                                   LAMBDA i : i.id # d.item.id)]}
                 /\ q.okToast = "success: deleted"
           /\ lastToast' # <<"success: deleted">>]_vars

\* C35 (Loot-pile write protection): a drag by a user who is not the DM onto
\* the loot pile, on its empty tray or on one of its items, leaves the loot
\* pile, the inventory the item came from and every wallet as they were,
\* locally and in what is written.
C35_LootPileProtected ==
    [][\A d \in RenderedItems(inventories) :
         \A o \in RenderedItems(inventories) \cup Zones(inventories) :
           \A x \in DropCoords(o), y \in DropCoords(o) :
             (~isDM /\ o.ownerId = LootPileId /\ Dragged(d, o, x, y))
             => /\ inventories'[LootPileId] = inventories[LootPileId]
                /\ inventories'[d.ownerId] = inventories[d.ownerId]
                /\ \A q \in Issuing : \A k \in 1..Len(q.writes) :
                      /\ ~Has(q.writes[k].fields, "currency")
                      /\ q.writes[k].p \notin {LootPileId, d.ownerId}]_vars

\* C36 (Loot-pile initialization does not overwrite): when the write of
\* createLootPile reaches a campaign whose loot-pile document exists, the
\* document keeps its trayItems, its currency and its characterName.
C36_LootPileKept ==
    [][(/\ pending # <<>>
        /\ Head(pending).op = "createLootPile"
        /\ lastOp' = [name |-> "commit", op |-> "createLootPile"]
        /\ LootPileId \in DOMAIN db)
         => /\ db'[LootPileId].doc.trayItems = db[LootPileId].doc.trayItems
            /\ db'[LootPileId].doc.currency = db[LootPileId].doc.currency
            /\ db'[LootPileId].doc.characterName = db[LootPileId].doc.characterName]_vars

\* the price a payment was computed with: what the page took the wallet to
\* be worth when the purchase was made, less what the payment writes
PriceOf(q) ==
    walletToCp(GetOr(q.pre[q.to], "currency", ZeroWallet))
      - walletToCp(q.writes[1].fields.currency)

\* C37 (Successive purchases accumulate): every payment of a purchase that
\* left the item with the buyer, when the store acknowledges it, lowers the stored wallet of the buyer by the
\* price of that purchase, so that after n purchases the stored wallet is
\* worth the initial wallet less the n prices, whenever the change
\* notifications arrive.
C37_PurchasesAccumulate ==
    [][(/\ pending # <<>>
        /\ Head(pending).op = "pay"
        /\ Head(pending).landed
        /\ lastOp' = [name |-> "commit", op |-> "pay"])
         => walletToCp(db'[Head(pending).to].doc.currency)
              = walletToCp(db[Head(pending).to].doc.currency) - PriceOf(Head(pending))]_vars


\* the ids a request takes out of the lists it writes, against the local view
\* its operation started from
Removed(q) ==
    UNION {{GetList(q.pre, w.p, Loc(w.c, w.f))[k].id :
               k \in 1..Len(GetList(q.pre, w.p, Loc(w.c, w.f)))}
             \ {w.v[k].id : k \in 1..Len(w.v)} :
           w \in {w \in Covered(q) : w.p \in DOMAIN q.pre /\ ListExists(q.pre, w.p, Loc(w.c, w.f))}}

\* the store after the first n requests in flight are acknowledged in order
RECURSIVE Acknowledged(_, _, _)
Acknowledged(d, reqs, n) ==
    IF n = 0 THEN d ELSE Acknowledged(ApplyBatch(d, Head(reqs).writes), Tail(reqs), n - 1)

\* C38 (No lost update between consecutive non-optimistic operations): when
\* Delete Item on an item A and then Delete Item or rotate on another item of
\* the same container were invoked from the same local view, so that both
\* writes are in flight, the store after both are acknowledged does not hold
\* A in that owner's inventory.
C38_NoLostUpdate ==
    \A i \in 1..Len(pending) : \A j \in (i + 1)..Len(pending) :
      (/\ pending[i].op = "delete"
       /\ pending[j].op \in {"delete", "rotate"}
       /\ pending[i].pre = pending[j].pre
       /\ \E a \in Covered(pending[i]), b \in Covered(pending[j]) :
             a.p = b.p /\ a.c = b.c /\ a.f = b.f
       /\ \A k \in 1..j : \A n \in 1..Len(pending[k].writes) :
             WriteTargetExists(db, pending[k].writes[n]))
      => \A id \in Removed(pending[i]) :
            ~InInventory(DbView(Acknowledged(db, pending, j)), pending[i].writes[1].p, id)


----------------------------------------------------------------------------
(* A campaign that is deleted while a player views it                       *)

\* handleDeleteCampaign (CampaignSelector.js 199-229) on the DM's client: the
\* batch that deletes every inventory document of the campaign. The campaign
\* is deleted once the viewer's operations are over and delivered, so that no
\* write of the viewer meets a deleted document; the documents of the
\* containers are not part of the batch and no container listener is notified
handleDeleteCampaign ==
    /\ ~isDM
    /\ pending = <<>>
    /\ opsLeft = 0
    /\ \A p \in DOMAIN contDirty : ~contDirty[p]
    /\ DOMAIN db # {}
    /\ db' = EmptyObject
    /\ invDirty' = (invDirty \/ Listening("inventories", ""))
    /\ lastToast' = <<>>
    /\ lastOp' = [name |-> "handleDeleteCampaign"]
    /\ UNCHANGED <<inventories, pending, contDirty, isDM, modal, nextId, opsLeft, transferred>>
    /\ UNCHANGED <<storeVars, tradeVars, ledger, placement>>

NextDeletion ==
    \/ handleDragEnd
    \/ handleDeleteItem
    \/ Commit
    \/ Reject
    \/ onInventoriesSnapshot
    \/ onContainersSnapshot
    \/ handleDeleteCampaign

DeletionSpec == InitTeardown /\ [][NextDeletion]_vars

\* C39 (Local view tracks the set of inventory documents): when the
\* inventories listener has processed a notification, the local inventories
\* hold an entry for exactly the owners that have a document in the
\* collection, and exactly these owners have a container listener.
C39_ViewTracksDocuments ==
    [][lastOp' = [name |-> "onInventoriesSnapshot"]
         => /\ DOMAIN inventories' = DOMAIN StoreOf(campaignId)
            /\ DOMAIN containerListeners' = DOMAIN inventories'
            /\ \A p \in DOMAIN inventories' :
                  containerListeners'[p] \in subs']_vars


\* C40 (A pending trade prompts its invitee at most once): whatever
\* notifications the invitee's client receives, it never shows two
\* invitations for the same trade, which it would if the trade were
\* presented a second time while its first invitation is on the screen.
C40_PromptedOnce ==
    \A n \in tradeToasts : \A m \in tradeToasts :
        (n.user = m.user /\ n.tradeId = m.tradeId) => n = m

====
